---------------------------- MODULE Spec2Model ----------------------------
(***************************************************************************)
(* A model of the pi programs of Evaluate-Pai (src/pi/src):                *)
(*   main.chudnovsky.rs   binary splitting (compute_binary_split,          *)
(*                        compute_pi) and the chunked direct summation     *)
(*                        (compute_pi_direct_optimized)                    *)
(*   main.w0.rs           per-term work stealing with factorial scratch    *)
(*   main.ava.rs, main.ava.opt.noimprove.rs   BBP work stealing            *)
(*   main.chudnovsky0.rs  chunked recurrence iterator with a mutex         *)
(* rug::Integer values are exact: they are modelled as sign and magnitude, *)
(* the magnitude a little-endian sequence of limbs.                        *)
(***************************************************************************)
EXTENDS Integers, Sequences, FiniteSets, Bags, TLC

VARIABLES
    prog,          \* the entry point being run
    sp,            \* compute_binary_split: the range, the split point, the triples
    digits,        \* argument digits
    num_threads,   \* argument num_threads
    precision,     \* let precision
    terms_needed,  \* let terms_needed
    ranges,        \* compute_pi: let mut ranges
    counter,       \* the shared AtomicUsize
    wpc,           \* per spawned thread: where it is
    wloc,          \* per spawned thread: its locals (local_sum, calculator, chunk)
    lock,          \* the Mutex around result: holder and poison flag
    result,        \* the Float inside the Mutex
    cpc,           \* the calling thread: where it is
    joined,        \* handles joined so far by the calling thread
    final,         \* the calling thread's accumulator (final_p/q/t, final_result, pi)
    ret,           \* the value returned to the caller
    hist           \* history of thread events, in the order they happened

vars == <<prog, sp, digits, num_threads, precision, terms_needed, ranges, counter,
          wpc, wloc, lock, result, cpc, joined, final, ret, hist>>

\* bounds of the model
MaxIndex   == 6      \* compute_binary_split is applied to ranges within [0, MaxIndex)
MaxThreads == 3      \* num_threads is drawn from 1..MaxThreads
MaxPiTerms == 5      \* compute_pi is run for digit counts that need up to MaxPiTerms terms
MaxW0Terms == 4      \* main.w0.rs is run for digit counts that need up to MaxW0Terms terms

None == [none |-> TRUE]

CeilDiv(x, y) == (x + y - 1) \div y
Min(x, y) == IF x < y THEN x ELSE y

(***************************************************************************)
(* rug::Integer: exact integers of any size.                               *)
(***************************************************************************)
\* radix of one limb of a magnitude; column sums of limb products stay below 2^31
Radix == 1000

Limb(x, i) == IF i <= Len(x) THEN x[i] ELSE 0

SetMax(S) == CHOOSE m \in S : \A i \in S : i <= m

RECURSIVE MagFromNat(_)
MagFromNat(n) == IF n = 0 THEN <<>> ELSE <<n % Radix>> \o MagFromNat(n \div Radix)

\* drop the high limbs that are zero
MagStrip(x) ==
    LET nz == {i \in 1..Len(x) : x[i] # 0}
    IN  IF nz = {} THEN <<>> ELSE SubSeq(x, 1, SetMax(nz))

\* the function f on 1..n as a sequence
Vec(f, n) == SubSeq(f, 1, n)

\* one round of carries (or borrows) of a column vector, all columns at once
CarryPass(v) ==
    Vec([j \in 1..(Len(v) + 1) |->
            (IF j <= Len(v) THEN v[j] % Radix ELSE 0)
          + (IF j > 1 THEN v[j - 1] \div Radix ELSE 0)], Len(v) + 1)

\* the limbs of a non-negative value given as a vector of column values
RECURSIVE MagNorm(_)
MagNorm(v) ==
    IF \A j \in 1..Len(v) : 0 <= v[j] /\ v[j] < Radix
    THEN MagStrip(v)
    ELSE MagNorm(MagStrip(CarryPass(v)))

MagAdd(x, y) ==
    LET n == IF Len(x) > Len(y) THEN Len(x) ELSE Len(y)
    IN  MagNorm(Vec([i \in 1..n |-> Limb(x, i) + Limb(y, i)], n))

\* x - y for x >= y
MagSub(x, y) == MagNorm(Vec([i \in 1..Len(x) |-> x[i] - Limb(y, i)], Len(x)))

\* -1, 0, 1 as x < y, x = y, x > y
MagCmp(x, y) ==
    IF Len(x) < Len(y) THEN -1
    ELSE IF Len(x) > Len(y) THEN 1
    ELSE LET d == {i \in 1..Len(x) : x[i] # y[i]}
         IN  IF d = {} THEN 0
             ELSE IF x[SetMax(d)] < y[SetMax(d)] THEN -1 ELSE 1

\* the sum of x[i] * y[j - i + 1] for i in lo..hi
RECURSIVE ColumnSum(_, _, _, _, _)
ColumnSum(x, y, j, lo, hi) ==
    IF lo > hi THEN 0
    ELSE IF lo = hi THEN x[lo] * y[j - lo + 1]
    ELSE LET mid == (lo + hi) \div 2
         IN  ColumnSum(x, y, j, lo, mid) + ColumnSum(x, y, j, mid + 1, hi)

MagMul(x, y) ==
    IF x = <<>> \/ y = <<>> THEN <<>>
    ELSE MagNorm(Vec([j \in 1..(Len(x) + Len(y) - 1) |->
                        ColumnSum(x, y, j,
                                  IF j - Len(y) + 1 > 1 THEN j - Len(y) + 1 ELSE 1,
                                  IF j < Len(x) THEN j ELSE Len(x))],
                     Len(x) + Len(y) - 1))

BigMake(neg, mag) == [neg |-> neg /\ mag # <<>>, mag |-> mag]

\* Integer::from(n) for a machine integer n
BigFrom(n) == IF n < 0 THEN BigMake(TRUE, MagFromNat(-n)) ELSE BigMake(FALSE, MagFromNat(n))

BigNeg(x) == BigMake(~x.neg, x.mag)

BigAdd(x, y) ==
    IF x.neg = y.neg THEN BigMake(x.neg, MagAdd(x.mag, y.mag))
    ELSE IF MagCmp(x.mag, y.mag) >= 0 THEN BigMake(x.neg, MagSub(x.mag, y.mag))
    ELSE BigMake(y.neg, MagSub(y.mag, x.mag))

BigMul(x, y) == BigMake(x.neg # y.neg, MagMul(x.mag, y.mag))

\* x^e by repeated squaring (the product is evaluated before it is passed on)
RECURSIVE BigPow(_, _)
BigPow(x, e) ==
    IF e = 0 THEN BigFrom(1)
    ELSE LET h  == BigPow(x, e \div 2)
             h2 == BigMul(h, h)
         IN  IF e % 2 = 0 THEN h2 ELSE BigMul(h2, x)

(***************************************************************************)
(* main.chudnovsky.rs: ChudnovskyBinarySplit                               *)
(***************************************************************************)
self_a == 13591409
self_b == 545140134
self_c == 640320

RECURSIVE FactorialLoop(_, _, _)
FactorialLoop(res, i, n) ==
    IF i > n THEN res
    ELSE LET next == BigMul(res, BigFrom(i))       \* result *= i
         IN  IF next.mag = <<>> THEN next ELSE FactorialLoop(next, i + 1, n)

factorial(n) == IF n = 0 THEN BigFrom(1) ELSE FactorialLoop(BigFrom(1), 1, n)

\* the rule with the left denominator where the right one belongs
MergeLeftDenominator(l, r) ==
    [p |-> BigAdd(BigMul(l.p, l.q), BigMul(r.p, l.t)),
     q |-> BigMul(l.q, r.q),
     t |-> BigMul(l.t, r.t)]

\* the rule of lines 86-91 and 144-148: P = P1*Q2 + P2*T1, Q = Q1*Q2, T = T1*T2
Merge(l, r) ==
    [p |-> BigAdd(BigMul(l.p, r.q), BigMul(r.p, l.t)),
     q |-> BigMul(l.q, r.q),
     t |-> BigMul(l.t, r.t)]

\* the base case b - a = 1, for k = a
BaseCase(k) ==
    LET six_k_fac   == factorial(6 * k)
        lk          == BigAdd(BigFrom(self_a), BigMul(BigFrom(self_b), BigFrom(k)))
        p_temp      == BigMul(six_k_fac, lk)
        three_k_fac == factorial(3 * k)
        k_fac       == factorial(k)
        k_fac_cubed == BigMul(BigMul(k_fac, k_fac), k_fac)
        c_pow_3k    == BigPow(BigFrom(self_c), 3 * k)
    IN  [p |-> IF k % 2 = 0 THEN p_temp ELSE BigNeg(p_temp),
         q |-> BigMul(BigMul(three_k_fac, k_fac_cubed), c_pow_3k),
         t |-> BigFrom(1)]

RECURSIVE compute_binary_split(_, _)
compute_binary_split(a, b) ==
    IF b - a = 1 THEN BaseCase(a)
    ELSE LET m == (a + b) \div 2
         IN  Merge(compute_binary_split(a, m), compute_binary_split(m, b))


(***************************************************************************)
(* compute_binary_split as a function: the whole range, and the two halves *)
(* of a split at m merged by the rule.                                     *)
(***************************************************************************)
NoSplit == [a |-> 0, b |-> 0, m |-> 0, pc |-> "off",
            whole |-> None, left |-> None, right |-> None, merged |-> None]

IdleThreads ==
    /\ digits = 0 /\ num_threads = 0 /\ precision = 0 /\ terms_needed = 0
    /\ ranges = <<>> /\ counter = 0 /\ wpc = <<>> /\ wloc = <<>>
    /\ lock = None /\ result = None /\ cpc = "off" /\ joined = 0
    /\ final = None /\ ret = None /\ hist = <<>>

threadVars == <<digits, num_threads, precision, terms_needed, ranges, counter,
                wpc, wloc, lock, result, cpc, joined, final, ret, hist>>

InitSplit ==
    /\ prog = "compute_binary_split"
    /\ \E a \in 0..(MaxIndex - 1) : \E b \in (a + 1)..MaxIndex :
       \E m \in (IF b - a >= 2 THEN (a + 1)..(b - 1) ELSE {a}) :
          sp = [NoSplit EXCEPT !.a = a, !.b = b, !.m = m, !.pc = "start"]
    /\ IdleThreads

SplitWhole ==
    /\ prog = "compute_binary_split" /\ sp.pc = "start"
    /\ sp' = [sp EXCEPT !.whole = compute_binary_split(sp.a, sp.b), !.pc = "whole"]
    /\ UNCHANGED <<prog, threadVars>>

SplitLeft ==
    /\ prog = "compute_binary_split" /\ sp.pc = "whole" /\ sp.b - sp.a >= 2
    /\ sp' = [sp EXCEPT !.left = compute_binary_split(sp.a, sp.m), !.pc = "left"]
    /\ UNCHANGED <<prog, threadVars>>

SplitRight ==
    /\ prog = "compute_binary_split" /\ sp.pc = "left"
    /\ sp' = [sp EXCEPT !.right = compute_binary_split(sp.m, sp.b), !.pc = "right"]
    /\ UNCHANGED <<prog, threadVars>>

SplitMerge ==
    /\ prog = "compute_binary_split" /\ sp.pc = "right"
    /\ sp' = [sp EXCEPT !.merged = Merge(sp.left, sp.right), !.pc = "merged"]
    /\ UNCHANGED <<prog, threadVars>>

NextSplit == SplitWhole \/ SplitLeft \/ SplitRight \/ SplitMerge

SpecSplit == InitSplit /\ [][NextSplit]_vars


(***************************************************************************)
(* main.chudnovsky.rs: ChudnovskyBinarySplit::compute_pi, the static range *)
(* split.  One thread per range; the calling thread joins the handles in   *)
(* the order it spawned them and folds each triple as it gets it.          *)
(***************************************************************************)
max_terms == 1000

\* ((digits as f64) * 3.32193).ceil() as u32 + guard
PrecisionBits(d, guard) == CeilDiv(d * 332193, 100000) + guard

\* (digits as f64 / 14.18).ceil(), capped at max_terms
PiTermsNeeded(d) == Min(CeilDiv(d * 100, 1418), max_terms)

\* a share that is rounded down, and at least 1
NumTermsPerThreadRoundedDown(terms, threads) ==
    IF threads = 0 THEN terms
    ELSE IF terms \div threads = 0 THEN 1 ELSE terms \div threads

\* u64::MAX, the value of a cast of +infinity to u64; the model holds it as its
\* largest integer, which is above every term count it is compared or added to
u64_MAX == 2147483647

\* (terms_needed as f64 / num_threads as f64).ceil() as u64: x / 0.0 is +infinity
\* for x > 0 and NaN for x = 0, and the cast gives u64::MAX and 0
NumTermsPerThread(terms, threads) ==
    IF threads = 0 THEN (IF terms = 0 THEN 0 ELSE u64_MAX)
    ELSE CeilDiv(terms, threads)

\* an end that is not cut at terms_needed
RangeEndUncut(start_term, per_thread, terms) == start_term + per_thread

\* line 120: (start_term + num_terms_per_thread).min(terms_needed)
RangeEnd(start_term, per_thread, terms) == Min(start_term + per_thread, terms)

\* the while loop of lines 118-123
RECURSIVE BuildRanges(_, _, _)
BuildRanges(start_term, per_thread, terms) ==
    IF start_term < terms
    THEN LET end_term == RangeEnd(start_term, per_thread, terms)
         IN  <<[a |-> start_term, b |-> end_term]>> \o BuildRanges(end_term, per_thread, terms)
    ELSE <<>>

\* the value a handle holds before its thread has returned
NoTriple == [p |-> BigFrom(0), q |-> BigFrom(0), t |-> BigFrom(0)]

\* an accumulator that starts at P = 1
FoldStartOne == [p |-> BigFrom(1), q |-> BigFrom(1), t |-> BigFrom(1)]

\* an accumulator of three Integer::new(), all of them 0
FoldStartZeros == [p |-> BigFrom(0), q |-> BigFrom(0), t |-> BigFrom(0)]

\* final_p = 0, final_q = 1, final_t = 1
FoldStart == [p |-> BigFrom(0), q |-> BigFrom(1), t |-> BigFrom(1)]

Event(e, w) == [ev |-> e, w |-> w]

\* the handles that have finished and are not merged yet, earliest finished first
NextHandleByCompletion ==
    LET merged == {hist[i].w : i \in {j \in 1..Len(hist) : hist[j].ev = "merge"}}
        ready  == {i \in 1..Len(hist) : hist[i].ev = "done" /\ hist[i].w \notin merged}
    IN  IF ready = {} THEN joined + 1
        ELSE hist[CHOOSE i \in ready : \A j \in ready : i <= j].w

\* for handle in handles: the next handle of the vector
NextHandle == joined + 1

\* a join that does not wait for the thread
JoinReadyNoWait(w) == wpc[w] # "unspawned"

\* handle.join() returns once the thread has ended, normally or by a panic
JoinReady(w) == wpc[w] \in {"done", "panicked"}

\* a join whose Err is dropped instead of unwrapped
JoinIsErrIgnored(w) == FALSE

\* handle.join() is Err when the thread panicked, and unwrap() panics on Err
JoinIsErr(w) == wpc[w] = "panicked"

\* digit counts on both sides of every change of terms_needed up to MaxPiTerms
PiDigits == {d \in 1..(14 * MaxPiTerms) : d % 14 \in {0, 1}}

InitPi ==
    /\ prog = "compute_pi"
    /\ sp = NoSplit
    /\ digits \in PiDigits
    /\ num_threads \in 1..MaxThreads
    /\ precision = 0 /\ terms_needed = 0
    /\ ranges = <<>> /\ counter = 0 /\ wpc = <<>> /\ wloc = <<>>
    /\ lock = None /\ result = None /\ cpc = "start" /\ joined = 0
    /\ final = None /\ ret = None /\ hist = <<>>

\* lines 104-123: the term count and the ranges
PiPlan ==
    /\ prog = "compute_pi" /\ cpc = "start"
    /\ terms_needed' = PiTermsNeeded(digits)
    /\ ranges' = BuildRanges(0, NumTermsPerThread(terms_needed', num_threads), terms_needed')
    /\ wpc' = [i \in 1..Len(ranges') |-> "unspawned"]
    /\ wloc' = [i \in 1..Len(ranges') |-> [res |-> NoTriple]]
    /\ final' = FoldStart
    /\ cpc' = IF ranges' = <<>> THEN "join" ELSE "spawn"
    /\ UNCHANGED <<prog, sp, digits, num_threads, precision, counter, lock, result,
                   joined, ret, hist>>

\* lines 127-133: thread::spawn for the next range
PiSpawn ==
    /\ prog = "compute_pi" /\ cpc = "spawn"
    /\ \E w \in DOMAIN wpc :
        /\ wpc[w] = "unspawned"
        /\ \A v \in DOMAIN wpc : v < w => wpc[v] # "unspawned"
        /\ wpc' = [wpc EXCEPT ![w] = "running"]
        /\ cpc' = IF w = Len(ranges) THEN "join" ELSE "spawn"
    /\ UNCHANGED <<prog, sp, digits, num_threads, precision, terms_needed, ranges,
                   counter, wloc, lock, result, joined, final, ret, hist>>

\* line 130: the thread's closure
PiWorker(w) ==
    /\ prog = "compute_pi" /\ wpc[w] = "running"
    /\ wloc' = [wloc EXCEPT ![w].res = compute_binary_split(ranges[w].a, ranges[w].b)]
    /\ wpc' = [wpc EXCEPT ![w] = "done"]
    /\ hist' = Append(hist, Event("done", w))
    /\ UNCHANGED <<prog, sp, digits, num_threads, precision, terms_needed, ranges,
                   counter, lock, result, cpc, joined, final, ret>>

\* the thread panics before it returns its triple
PiWorkerPanic(w) ==
    /\ prog = "compute_pi" /\ wpc[w] = "running"
    /\ wpc' = [wpc EXCEPT ![w] = "panicked"]
    /\ hist' = Append(hist, Event("panic", w))
    /\ UNCHANGED <<prog, sp, digits, num_threads, precision, terms_needed, ranges,
                   counter, wloc, lock, result, cpc, joined, final, ret>>

\* lines 140-153: one turn of the loop, handle.join().unwrap() and the merge
PiJoin ==
    /\ prog = "compute_pi" /\ cpc = "join" /\ joined < Len(ranges)
    /\ LET w == NextHandle IN
        /\ JoinReady(w)
        /\ IF JoinIsErr(w)
           THEN /\ cpc' = "panicked"
                /\ UNCHANGED <<joined, final, hist>>
           ELSE /\ final' = Merge(final, wloc[w].res)
                /\ joined' = joined + 1
                /\ hist' = Append(hist, Event("merge", w))
                /\ UNCHANGED cpc
    /\ UNCHANGED <<prog, sp, digits, num_threads, precision, terms_needed, ranges,
                   counter, wpc, wloc, lock, result, ret>>

\* lines 155-180: pi = (426880 * sqrt(10005) * Q) / (12 * P) at the planned precision
PiReturn ==
    /\ prog = "compute_pi" /\ cpc = "join" /\ joined = Len(ranges)
    /\ precision' = PrecisionBits(digits, 10)
    /\ ret' = [q |-> final.q, p |-> final.p, prec |-> precision']
    /\ cpc' = "returned"
    /\ UNCHANGED <<prog, sp, digits, num_threads, terms_needed, ranges, counter,
                   wpc, wloc, lock, result, joined, final, hist>>

NextPi ==
    \/ PiPlan \/ PiSpawn \/ PiJoin \/ PiReturn
    \/ \E w \in DOMAIN wpc : PiWorker(w)

SpecPi == InitPi /\ [][NextPi]_vars

(***************************************************************************)
(* The spawn loop and the join loop that the work-stealing programs share  *)
(* in shape: for _ in 0..num_threads { thread::spawn }, for handle in      *)
(* handles { handle.join().unwrap() }.                                     *)
(***************************************************************************)
\* the thread the spawn loop starts next
IsNextToSpawn(w) ==
    /\ wpc[w] = "unspawned"
    /\ \A v \in DOMAIN wpc : v < w => wpc[v] # "unspawned"

\* a read of the counter that is not followed by the increment
fetch_add_lost(c) == c

\* counter.fetch_add(1, Ordering::SeqCst): the counter after the call; the call
\* returns the value before it
fetch_add(c) == c + 1

\* where the calling thread goes after spawning w
AfterSpawn(w) == IF w = num_threads THEN "join" ELSE "spawn"

(***************************************************************************)
(* main.w0.rs: ChudnovskyCalculator and compute_pi_chudnovsky.  Every      *)
(* thread owns a calculator and takes single indices k from the counter.   *)
(***************************************************************************)
\* ChudnovskyCalculator::new, the integer fields
ChudnovskyCalculatorNew ==
    [numerator |-> BigFrom(0), denominator |-> BigFrom(0),
     k_factorial |-> BigFrom(1), three_k_factorial |-> BigFrom(1),
     six_k_factorial |-> BigFrom(1)]

\* for i in 1..=6 { six_k_factorial *= 6k - 6 + i }
RECURSIVE SixFactors(_, _, _)
SixFactors(f, k, i) ==
    IF i > 6 THEN f
    ELSE LET next == BigMul(f, BigFrom(6 * k - 6 + i))
         IN  IF next.mag = <<>> THEN next ELSE SixFactors(next, k, i + 1)

update_factorials(calc, k) ==
    IF k = 1
    THEN [calc EXCEPT !.k_factorial = BigFrom(1),
                      !.three_k_factorial = BigFrom(6),
                      !.six_k_factorial = BigFrom(720)]
    ELSE [calc EXCEPT
            !.k_factorial = BigMul(@, BigFrom(k)),
            !.three_k_factorial =
                BigMul(BigMul(BigMul(@, BigFrom(3 * k - 2)), BigFrom(3 * k - 1)), BigFrom(3 * k)),
            !.six_k_factorial = SixFactors(@, k, 1)]

\* compute_term: the calculator after the call; the term is numerator / denominator
compute_term(calc, k) ==
    IF k = 0
    THEN [calc EXCEPT !.numerator = BigFrom(1), !.denominator = BigFrom(1)]
    ELSE LET c1 == update_factorials(calc, k)
             coefficient == BigAdd(BigFrom(13591409), BigMul(BigFrom(545140134), BigFrom(k)))
             num == BigMul(c1.six_k_factorial, coefficient)
             k_fact_cubed == BigPow(c1.k_factorial, 3)
             power_term == BigPow(BigFrom(640320), 3 * k)
         IN  [c1 EXCEPT
                !.numerator = IF k % 2 = 1 THEN BigNeg(num) ELSE num,
                !.denominator = BigMul(BigMul(c1.three_k_factorial, k_fact_cubed), power_term)]

\* (digits as f64 / 14.0).ceil() as usize + 2
W0TermsNeeded(d) == CeilDiv(d, 14) + 2

\* digits = 10^log10_digits rounded, log10_digits >= 1: both sides of every change
\* of terms_needed up to MaxW0Terms
W0Digits == {d \in 10..(14 * (MaxW0Terms - 2)) : d = 10 \/ d % 14 \in {0, 1}}

InitW0 ==
    /\ prog = "w0"
    /\ sp = NoSplit
    /\ digits \in W0Digits
    /\ num_threads \in 1..MaxThreads
    /\ precision = PrecisionBits(digits, 32)
    /\ terms_needed = W0TermsNeeded(digits)
    /\ ranges = <<>> /\ counter = 0
    /\ wpc = [w \in 1..num_threads |-> "unspawned"]
    /\ wloc = [w \in 1..num_threads |->
                [calculator |-> ChudnovskyCalculatorNew, local_sum |-> <<>>, k |-> -1]]
    /\ lock = None /\ result = None /\ cpc = "spawn" /\ joined = 0
    /\ final = <<>> /\ ret = None /\ hist = <<>>

\* lines 148-169: the next thread::spawn
W0Spawn ==
    /\ prog = "w0" /\ cpc = "spawn"
    /\ \E w \in DOMAIN wpc :
        /\ IsNextToSpawn(w)
        /\ wpc' = [wpc EXCEPT ![w] = "loop"]
        /\ cpc' = AfterSpawn(w)
    /\ UNCHANGED <<prog, sp, digits, num_threads, precision, terms_needed, ranges,
                   counter, wloc, lock, result, joined, final, ret, hist>>

\* lines 155-163: one turn of the thread's loop
W0Step(w) ==
    /\ prog = "w0" /\ wpc[w] = "loop"
    /\ LET k == counter IN
        /\ counter' = fetch_add(counter)
        /\ IF k >= terms_needed
           THEN /\ wpc' = [wpc EXCEPT ![w] = "done"]
                /\ UNCHANGED wloc
           ELSE LET c1 == compute_term(wloc[w].calculator, k) IN
                /\ wloc' = [wloc EXCEPT
                              ![w].calculator = c1,
                              ![w].k = k,
                              ![w].local_sum =
                                  Append(@, [k |-> k, num |-> c1.numerator,
                                             den |-> c1.denominator])]
                /\ UNCHANGED wpc
    /\ UNCHANGED <<prog, sp, digits, num_threads, precision, terms_needed, ranges,
                   lock, result, cpc, joined, final, ret, hist>>

\* lines 173-176: one turn of the join loop
W0Join ==
    /\ prog = "w0" /\ cpc = "join" /\ joined < num_threads
    /\ LET w == NextHandle IN
        /\ JoinReady(w)
        /\ IF JoinIsErr(w)
           THEN /\ cpc' = "panicked"
                /\ UNCHANGED <<joined, final>>
           ELSE /\ final' = final \o wloc[w].local_sum
                /\ joined' = joined + 1
                /\ UNCHANGED cpc
    /\ UNCHANGED <<prog, sp, digits, num_threads, precision, terms_needed, ranges,
                   counter, wpc, wloc, lock, result, ret, hist>>

\* lines 178-189: pi = 426880 * sqrt(10005) / series_sum
W0Return ==
    /\ prog = "w0" /\ cpc = "join" /\ joined = num_threads
    /\ ret' = [series_sum |-> final, prec |-> precision]
    /\ cpc' = "returned"
    /\ UNCHANGED <<prog, sp, digits, num_threads, precision, terms_needed, ranges,
                   counter, wpc, wloc, lock, result, joined, final, hist>>

NextW0 ==
    \/ W0Spawn \/ W0Join \/ W0Return
    \/ \E w \in DOMAIN wpc : W0Step(w)

SpecW0 == InitW0 /\ [][NextW0]_vars

(***************************************************************************)
(* rug::Float at a precision of prec bits: sign, mantissa m and exponent e *)
(* with value m * 2^e, the mantissa zero or of exactly prec bits, every    *)
(* operation rounded to nearest, ties to even (MPFR's default).  The       *)
(* precisions of the model keep a mantissa and three guard bits in 31 bits.*)
(* An operation binds its operands in a one-element set, so that each is   *)
(* evaluated once where it is used several times.                          *)
(***************************************************************************)
RECURSIVE Pow2(_)
Pow2(n) == IF n = 0 THEN 1 ELSE 2 * Pow2(n - 1)

RECURSIVE BitLen(_)
BitLen(n) == IF n = 0 THEN 0 ELSE 1 + BitLen(n \div 2)

FloatZero(prec) == [neg |-> FALSE, m |-> 0, e |-> 0, prec |-> prec]

\* the float nearest to (M + s) * 2^E, where 0 < s < 1 if sticky and s = 0 if not
FloatRound(neg0, M0, E0, sticky0, prec) ==
    LET Rounded(neg, M, E, sticky) ==
        IF M = 0 THEN FloatZero(prec)
        ELSE LET bl == BitLen(M) IN
             IF bl <= prec
             THEN [neg |-> neg, m |-> M * Pow2(prec - bl), e |-> E - (prec - bl), prec |-> prec]
             ELSE LET shift == bl - prec
                      q     == M \div Pow2(shift)
                      rem   == M % Pow2(shift)
                      half  == Pow2(shift - 1)
                      up    == rem > half \/ (rem = half /\ (sticky \/ q % 2 = 1))
                      r     == IF up THEN q + 1 ELSE q
                  IN  IF r = Pow2(prec)
                      THEN [neg |-> neg, m |-> Pow2(prec - 1), e |-> E + shift + 1, prec |-> prec]
                      ELSE [neg |-> neg, m |-> r, e |-> E + shift, prec |-> prec]
    IN  CHOOSE v \in {Rounded(neg, M, E, sticky) : neg \in {neg0}, M \in {M0}, E \in {E0}, sticky \in {sticky0}} : TRUE

\* Float::with_val(prec, n) and assign(n) for a machine integer n >= 0
FloatFromInt(n, prec) == FloatRound(FALSE, n, 0, FALSE, prec)

\* s more quotient bits of r / d by long division: <<quotient, remainder>>
RECURSIVE LongDivide(_, _, _, _)
LongDivide(q, r, d, s) ==
    IF s = 0 THEN <<q, r>>
    ELSE IF 2 * r >= d THEN LongDivide(2 * q + 1, 2 * r - d, d, s - 1)
                       ELSE LongDivide(2 * q, 2 * r, d, s - 1)

\* x / y rounded to prec bits
FloatDiv(x0, y0, prec) ==
    LET Quotient(x, y) ==
        IF x.m = 0 THEN FloatZero(prec)
        ELSE LET s  == prec + 2 + BitLen(y.m) - BitLen(x.m)
                 qr == LongDivide(x.m \div y.m, x.m % y.m, y.m, s)
             IN  FloatRound(x.neg # y.neg, qr[1], x.e - y.e - s, qr[2] # 0, prec)
    IN  CHOOSE v \in {Quotient(x, y) : x \in {x0}, y \in {y0}} : TRUE

\* x + y rounded to prec bits, with three guard bits below the larger exponent
FloatAdd(x0, y0, prec) ==
    LET Sum(x, y) ==
        IF y.m = 0 THEN FloatRound(x.neg, x.m, x.e, FALSE, prec)
        ELSE IF x.m = 0 THEN FloatRound(y.neg, y.m, y.e, FALSE, prec)
        ELSE LET hi    == IF x.e >= y.e THEN x ELSE y
                 lo    == IF x.e >= y.e THEN y ELSE x
                 E0    == hi.e - 3
                 shift == E0 - lo.e
                 Mh    == hi.m * 8
                 Ml    == IF shift <= 0 THEN lo.m * Pow2(-shift)
                          ELSE IF shift > 30 THEN 0
                          ELSE lo.m \div Pow2(shift)
                 lost  == IF shift <= 0 THEN FALSE
                          ELSE IF shift > 30 THEN TRUE
                          ELSE lo.m % Pow2(shift) # 0
             IN  IF hi.neg = lo.neg THEN FloatRound(hi.neg, Mh + Ml, E0, lost, prec)
                 ELSE IF lost THEN FloatRound(hi.neg, Mh - Ml - 1, E0, TRUE, prec)
                 ELSE IF Mh >= Ml THEN FloatRound(hi.neg, Mh - Ml, E0, FALSE, prec)
                 ELSE FloatRound(lo.neg, Ml - Mh, E0, FALSE, prec)
    IN  CHOOSE v \in {Sum(x, y) : x \in {x0}, y \in {y0}} : TRUE

FloatSub(x, y, prec) == FloatAdd(x, [y EXCEPT !.neg = ~y.neg], prec)

\* 16^k as a Float: a power of two, exact
FloatPow16(k, prec) == [neg |-> FALSE, m |-> Pow2(prec - 1), e |-> 4 * k - (prec - 1), prec |-> prec]

\* x * y for y a power of two (the only products of the BBP term): exact
FloatMulPow2(x0, y0, prec) ==
    LET Product(x, y) ==
        IF x.m = 0 THEN FloatZero(prec)
        ELSE FloatRound(x.neg # y.neg, x.m, x.e + y.e + (BitLen(y.m) - 1), FALSE, prec)
    IN  CHOOSE v \in {Product(x, y) : x \in {x0}, y \in {y0}} : TRUE

(***************************************************************************)
(* main.ava.rs: bbp_term and compute_pi_parallel.  The term is a function  *)
(* of k and the precision; every thread takes single indices k from the    *)
(* counter.  A sum is kept as the sequence of the terms added to it.       *)
(***************************************************************************)
MaxBBPDigits == 1
MaxBBPThreads == 2

\* (4/(8k+1) - 2/(8k+4) - 1/(8k+5) - 1/(8k+6)) * 16^(-k) at precision + 10 bits
bbp_term(k, prec0) ==
    LET prec    == prec0 + 10
        eight_k == FloatFromInt(8 * k, prec)
        term1   == FloatDiv(FloatFromInt(4, prec), FloatAdd(eight_k, FloatFromInt(1, prec), prec), prec)
        term2   == FloatDiv(FloatFromInt(2, prec), FloatAdd(eight_k, FloatFromInt(4, prec), prec), prec)
        term3   == FloatDiv(FloatFromInt(1, prec), FloatAdd(eight_k, FloatFromInt(5, prec), prec), prec)
        term4   == FloatDiv(FloatFromInt(1, prec), FloatAdd(eight_k, FloatFromInt(6, prec), prec), prec)
        sixteen_pow_k == FloatPow16(-k, prec)
    IN  FloatMulPow2(FloatSub(FloatSub(FloatSub(term1, term2, prec), term3, prec), term4, prec),
                     sixteen_pow_k, prec)

\* (precision as usize) / 4 + 10
BBPTermsNeeded(prec) == (prec \div 4) + 10

InitAva ==
    /\ prog = "ava"
    /\ sp = NoSplit
    /\ digits \in 1..MaxBBPDigits
    /\ num_threads \in 1..MaxBBPThreads
    /\ precision = PrecisionBits(digits, 10)
    /\ terms_needed = BBPTermsNeeded(precision)
    /\ ranges = <<>> /\ counter = 0
    /\ wpc = [w \in 1..num_threads |-> "unspawned"]
    /\ wloc = [w \in 1..num_threads |-> [local_sum |-> <<>>, k |-> -1]]
    /\ lock = None /\ result = None /\ cpc = "spawn" /\ joined = 0
    /\ final = <<>> /\ ret = None /\ hist = <<>>

\* lines 47-68: the next thread::spawn
AvaSpawn ==
    /\ prog = "ava" /\ cpc = "spawn"
    /\ \E w \in DOMAIN wpc :
        /\ IsNextToSpawn(w)
        /\ wpc' = [wpc EXCEPT ![w] = "loop"]
        /\ cpc' = AfterSpawn(w)
    /\ UNCHANGED <<prog, sp, digits, num_threads, precision, terms_needed, ranges,
                   counter, wloc, lock, result, joined, final, ret, hist>>

\* lines 53-62: one turn of the thread's loop
AvaStep(w) ==
    /\ prog = "ava" /\ wpc[w] = "loop"
    /\ LET k == counter IN
        /\ counter' = fetch_add(counter)
        /\ IF k >= terms_needed
           THEN /\ wpc' = [wpc EXCEPT ![w] = "done"]
                /\ UNCHANGED wloc
           ELSE /\ wloc' = [wloc EXCEPT
                              ![w].k = k,
                              ![w].local_sum = Append(@, [k |-> k, v |-> bbp_term(k, precision)])]
                /\ UNCHANGED wpc
    /\ UNCHANGED <<prog, sp, digits, num_threads, precision, terms_needed, ranges,
                   lock, result, cpc, joined, final, ret, hist>>

\* lines 72-75: one turn of the join loop
AvaJoin ==
    /\ prog = "ava" /\ cpc = "join" /\ joined < num_threads
    /\ LET w == NextHandle IN
        /\ JoinReady(w)
        /\ IF JoinIsErr(w)
           THEN /\ cpc' = "panicked"
                /\ UNCHANGED <<joined, final>>
           ELSE /\ final' = final \o wloc[w].local_sum
                /\ joined' = joined + 1
                /\ UNCHANGED cpc
    /\ UNCHANGED <<prog, sp, digits, num_threads, precision, terms_needed, ranges,
                   counter, wpc, wloc, lock, result, ret, hist>>

\* lines 81-82: pi.set_prec(precision); pi
AvaReturn ==
    /\ prog = "ava" /\ cpc = "join" /\ joined = num_threads
    /\ ret' = [sum |-> final, prec |-> precision]
    /\ cpc' = "returned"
    /\ UNCHANGED <<prog, sp, digits, num_threads, precision, terms_needed, ranges,
                   counter, wpc, wloc, lock, result, joined, final, hist>>

NextAva ==
    \/ AvaSpawn \/ AvaJoin \/ AvaReturn
    \/ \E w \in DOMAIN wpc : AvaStep(w)

(***************************************************************************)
(* main.ava.opt.noimprove.rs: BBPCalculator and compute_pi_optimized.      *)
(* Every thread owns a calculator whose Floats are reused from one term to *)
(* the next.                                                               *)
(***************************************************************************)
BBPCalculatorNew(prec) ==
    [term1 |-> FloatFromInt(0, prec), term2 |-> FloatFromInt(0, prec),
     term3 |-> FloatFromInt(0, prec), term4 |-> FloatFromInt(0, prec),
     eight_k |-> FloatFromInt(0, prec), sixteen_pow_k |-> FloatFromInt(0, prec),
     denominator1 |-> FloatFromInt(1, prec), denominator2 |-> FloatFromInt(4, prec),
     denominator3 |-> FloatFromInt(5, prec), denominator4 |-> FloatFromInt(6, prec),
     one_over_16 |-> FloatDiv(FloatFromInt(1, prec), FloatFromInt(16, prec), prec),
     sixteen |-> FloatFromInt(16, prec)]

\* a 16^(-k) that divides what the field held before, for k >= 2
SixteenPowKReused(calc, k, prec) ==
    IF k = 0 THEN FloatFromInt(1, prec)
    ELSE IF k = 1 THEN calc.one_over_16
    ELSE FloatDiv(calc.sixteen_pow_k, FloatPow16(k, prec), prec)

\* lines 84-93: the value given to sixteen_pow_k
SixteenPowK(calc, k, prec) ==
    IF k = 0 THEN FloatFromInt(1, prec)
    ELSE IF k = 1 THEN calc.one_over_16
    ELSE FloatDiv(FloatFromInt(1, prec), FloatPow16(k, prec), prec)

\* BBPCalculator::compute_term: the calculator after the call; the term is term1
BBPCalculator_compute_term(calc, k, prec) ==
    LET eight_k == FloatFromInt(8 * k, prec)
        d1 == FloatAdd(FloatFromInt(1, prec), eight_k, prec)
        d2 == FloatAdd(FloatFromInt(4, prec), eight_k, prec)
        d3 == FloatAdd(FloatFromInt(5, prec), eight_k, prec)
        d4 == FloatAdd(FloatFromInt(6, prec), eight_k, prec)
        t1 == FloatDiv(FloatFromInt(4, prec), d1, prec)
        t2 == FloatDiv(FloatFromInt(2, prec), d2, prec)
        t3 == FloatDiv(FloatFromInt(1, prec), d3, prec)
        t4 == FloatDiv(FloatFromInt(1, prec), d4, prec)
        combined == FloatSub(FloatSub(FloatSub(t1, t2, prec), t3, prec), t4, prec)
        pow == SixteenPowK(calc, k, prec)
    IN  [calc EXCEPT
            !.eight_k = eight_k,
            !.denominator1 = d1, !.denominator2 = d2,
            !.denominator3 = d3, !.denominator4 = d4,
            !.term2 = t2, !.term3 = t3, !.term4 = t4,
            !.sixteen_pow_k = pow,
            !.term1 = FloatMulPow2(combined, pow, prec)]

InitOpt ==
    /\ prog = "opt"
    /\ sp = NoSplit
    /\ digits \in 1..MaxBBPDigits
    /\ num_threads \in 1..MaxBBPThreads
    /\ precision = PrecisionBits(digits, 10)
    /\ terms_needed = BBPTermsNeeded(precision)
    /\ ranges = <<>> /\ counter = 0
    /\ wpc = [w \in 1..num_threads |-> "unspawned"]
    /\ wloc = [w \in 1..num_threads |->
                [calculator |-> BBPCalculatorNew(precision), local_sum |-> <<>>, k |-> -1]]
    /\ lock = None /\ result = None /\ cpc = "spawn" /\ joined = 0
    /\ final = <<>> /\ ret = None /\ hist = <<>>

\* lines 126-151: the next thread::spawn
OptSpawn ==
    /\ prog = "opt" /\ cpc = "spawn"
    /\ \E w \in DOMAIN wpc :
        /\ IsNextToSpawn(w)
        /\ wpc' = [wpc EXCEPT ![w] = "loop"]
        /\ cpc' = AfterSpawn(w)
    /\ UNCHANGED <<prog, sp, digits, num_threads, precision, terms_needed, ranges,
                   counter, wloc, lock, result, joined, final, ret, hist>>

\* lines 134-144: one turn of the thread's loop
OptStep(w) ==
    /\ prog = "opt" /\ wpc[w] = "loop"
    /\ LET k == counter IN
        /\ counter' = fetch_add(counter)
        /\ IF k >= terms_needed
           THEN /\ wpc' = [wpc EXCEPT ![w] = "done"]
                /\ UNCHANGED wloc
           ELSE LET c1 == BBPCalculator_compute_term(wloc[w].calculator, k, precision) IN
                /\ wloc' = [wloc EXCEPT
                              ![w].calculator = c1,
                              ![w].k = k,
                              ![w].local_sum = Append(@, [k |-> k, v |-> c1.term1])]
                /\ UNCHANGED wpc
    /\ UNCHANGED <<prog, sp, digits, num_threads, precision, terms_needed, ranges,
                   lock, result, cpc, joined, final, ret, hist>>

\* lines 136-143: the thread panics in the body of a turn of its loop, after
\* the fetch_add of line 136 has given it an index below terms_needed: the
\* counter has moved on and the index is in no sum
OptPanic(w) ==
    /\ prog = "opt" /\ wpc[w] = "loop"
    /\ LET k == counter IN
        /\ k < terms_needed
        /\ counter' = fetch_add(counter)
    /\ wpc' = [wpc EXCEPT ![w] = "panicked"]
    /\ UNCHANGED <<prog, sp, digits, num_threads, precision, terms_needed, ranges,
                   wloc, lock, result, cpc, joined, final, ret, hist>>

\* lines 155-158: one turn of the join loop
OptJoin ==
    /\ prog = "opt" /\ cpc = "join" /\ joined < num_threads
    /\ LET w == NextHandle IN
        /\ JoinReady(w)
        /\ IF JoinIsErr(w)
           THEN /\ cpc' = "panicked"
                /\ UNCHANGED <<joined, final>>
           ELSE /\ final' = final \o wloc[w].local_sum
                /\ joined' = joined + 1
                /\ UNCHANGED cpc
    /\ UNCHANGED <<prog, sp, digits, num_threads, precision, terms_needed, ranges,
                   counter, wpc, wloc, lock, result, ret, hist>>

\* line 163: (final_result, duration)
OptReturn ==
    /\ prog = "opt" /\ cpc = "join" /\ joined = num_threads
    /\ ret' = [sum |-> final, prec |-> precision]
    /\ cpc' = "returned"
    /\ UNCHANGED <<prog, sp, digits, num_threads, precision, terms_needed, ranges,
                   counter, wpc, wloc, lock, result, joined, final, hist>>

NextOpt ==
    \/ OptSpawn \/ OptJoin \/ OptReturn
    \/ \E w \in DOMAIN wpc : OptStep(w)

(***************************************************************************)
(* The two BBP programs side by side.                                      *)
(***************************************************************************)
InitBBP == InitAva \/ InitOpt

NextBBP == NextAva \/ NextOpt

SpecBBP == InitBBP /\ [][NextBBP]_vars

(***************************************************************************)
(* The threads of the two programs that add their sums into a              *)
(* Mutex<Float>: where a thread goes next.  "loop" is the fetch_add at the *)
(* head of the loop, "compute" the body of the loop for the chunk it got,  *)
(* "lock" the call of result.lock(), "merge" the statement under the       *)
(* guard.  The Mutex is its holder (0 for none) and its poison flag; the   *)
(* Float in it is kept as the sequence of the terms added to it, a term as *)
(* its index and its sign.  A thread records the chunk indices it got      *)
(* (claimed), how often it took the lock (locks) and whether it went       *)
(* through the loop after taking the lock (late).                          *)
(***************************************************************************)
MaxChunks == 3

chunk_size == 100

\* a thread that takes the lock after each chunk and goes back to the loop
ThreadFlowLockPerChunk(at, brk) ==
    CASE at = "loop"    -> IF brk THEN "done" ELSE "compute"
      [] at = "compute" -> "lock"
      [] at = "lock"    -> "merge"
      [] at = "merge"   -> "loop"

\* loop { fetch_add; if .. { break; } body } lock; merge; end of the closure
ThreadFlow(at, brk) ==
    CASE at = "loop"    -> IF brk THEN "lock" ELSE "compute"
      [] at = "compute" -> "loop"
      [] at = "lock"    -> "merge"
      [] at = "merge"   -> "done"

MutexNew == [holder |-> 0, poisoned |-> FALSE]

\* a lock() that returns while another thread holds the guard
MutexAvailableAlways(l) == TRUE

\* lock() blocks the calling thread until no thread holds the guard
MutexAvailable(l) == l.holder = 0

\* a guard that is forgotten instead of dropped: the Mutex stays locked
MutexGuardLeaked(l) == l

\* the MutexGuard goes out of scope at the end of the block: the Mutex is unlocked
MutexGuardDrop(l) == [l EXCEPT !.holder = 0]

\* digit counts that give whole and broken chunks, up to MaxChunks chunks
MutexDigits == {d \in 1..(1418 * MaxChunks) : d % 1418 \in {10, 1410}}

(***************************************************************************)
(* main.chudnovsky.rs: compute_pi_direct_optimized.                        *)
(***************************************************************************)
\* (digits as f64 / 14.18).ceil()
DirectTermsNeeded(d) == CeilDiv(d * 100, 1418)

\* (terms_needed + chunk_size - 1) / chunk_size
DirectNumChunks(terms) == (terms + chunk_size - 1) \div chunk_size

\* lines 257-267: the terms of one chunk with their signs, as added to local_sum
DirectChunkTerms(start_term, end_term) ==
    LET start_negative == start_term % 2 # 0
    IN  [i \in 1..(end_term - start_term) |->
            [k |-> start_term + i - 1,
             neg |-> IF (i - 1) % 2 = 0 THEN start_negative ELSE ~start_negative]]

InitDirect ==
    /\ prog = "direct"
    /\ sp = NoSplit
    /\ digits \in MutexDigits
    /\ num_threads \in 1..MaxThreads
    /\ precision = PrecisionBits(digits, 10)
    /\ terms_needed = DirectTermsNeeded(digits)
    /\ ranges = <<>> /\ counter = 0
    /\ wpc = [w \in 1..num_threads |-> "unspawned"]
    /\ wloc = [w \in 1..num_threads |-> [local_sum |-> <<>>, chunk_idx |-> -1, claimed |-> <<>>, locks |-> 0,
                 late |-> FALSE]]
    /\ lock = MutexNew /\ result = <<>> /\ cpc = "spawn" /\ joined = 0
    /\ final = <<>> /\ ret = None /\ hist = <<>>

\* lines 235-276: the next thread::spawn
DirectSpawn ==
    /\ prog = "direct" /\ cpc = "spawn"
    /\ \E w \in DOMAIN wpc :
        /\ IsNextToSpawn(w)
        /\ wpc' = [wpc EXCEPT ![w] = "loop"]
        /\ cpc' = AfterSpawn(w)
    /\ UNCHANGED <<prog, sp, digits, num_threads, precision, terms_needed, ranges,
                   counter, wloc, lock, result, joined, final, ret, hist>>

\* lines 244-247: the thread takes a chunk index or leaves the loop
DirectClaim(w) ==
    /\ prog = "direct" /\ wpc[w] = "loop"
    /\ LET chunk_idx == counter
           brk == chunk_idx >= DirectNumChunks(terms_needed)
       IN
        /\ counter' = fetch_add(counter)
        /\ wpc' = [wpc EXCEPT ![w] = ThreadFlow("loop", brk)]
        /\ wloc' = IF brk THEN [wloc EXCEPT ![w].late = @ \/ wloc[w].locks > 0]
                   ELSE [wloc EXCEPT ![w].chunk_idx = chunk_idx,
                                     ![w].claimed = Append(@, chunk_idx),
                                     ![w].late = @ \/ wloc[w].locks > 0]
    /\ UNCHANGED <<prog, sp, digits, num_threads, precision, terms_needed, ranges,
                   lock, result, cpc, joined, final, ret, hist>>

\* lines 249-267: the body of the loop for the chunk
DirectChunk(w) ==
    /\ prog = "direct" /\ wpc[w] = "compute"
    /\ LET start_term == wloc[w].chunk_idx * chunk_size
           end_term == Min(start_term + chunk_size, terms_needed)
       IN  IF start_term >= end_term
           THEN wloc' = [wloc EXCEPT ![w].late = @ \/ wloc[w].locks > 0]
           ELSE wloc' = [wloc EXCEPT
                           ![w].local_sum = @ \o DirectChunkTerms(start_term, end_term),
                           ![w].late = @ \/ wloc[w].locks > 0]
    /\ wpc' = [wpc EXCEPT ![w] = ThreadFlow("compute", FALSE)]
    /\ UNCHANGED <<prog, sp, digits, num_threads, precision, terms_needed, ranges,
                   counter, lock, result, cpc, joined, final, ret, hist>>

\* line 271: result.lock().unwrap(), which panics if the Mutex is poisoned
DirectLock(w) ==
    /\ prog = "direct" /\ wpc[w] = "lock"
    /\ MutexAvailable(lock)
    /\ IF lock.poisoned
       THEN /\ wpc' = [wpc EXCEPT ![w] = "panicked"]
            /\ UNCHANGED <<lock, wloc>>
       ELSE /\ wpc' = [wpc EXCEPT ![w] = ThreadFlow("lock", FALSE)]
            /\ wloc' = [wloc EXCEPT ![w].locks = @ + 1]
            /\ lock' = [lock EXCEPT !.holder = w]
    /\ UNCHANGED <<prog, sp, digits, num_threads, precision, terms_needed, ranges,
                   counter, result, cpc, joined, final, ret, hist>>

\* lines 272-273: *global_result += &local_sum, and the guard is dropped
DirectMerge(w) ==
    /\ prog = "direct" /\ wpc[w] = "merge"
    /\ result' = result \o wloc[w].local_sum
    /\ lock' = MutexGuardDrop(lock)
    /\ wpc' = [wpc EXCEPT ![w] = ThreadFlow("merge", FALSE)]
    /\ UNCHANGED <<prog, sp, digits, num_threads, precision, terms_needed, ranges,
                   counter, wloc, cpc, joined, final, ret, hist>>

\* the thread panics; a guard dropped by a panic poisons the Mutex
DirectPanic(w) ==
    /\ prog = "direct" /\ wpc[w] \in {"loop", "compute", "lock", "merge"}
    /\ wpc' = [wpc EXCEPT ![w] = "panicked"]
    /\ lock' = IF wpc[w] = "merge" THEN [holder |-> 0, poisoned |-> TRUE] ELSE lock
    /\ UNCHANGED <<prog, sp, digits, num_threads, precision, terms_needed, ranges,
                   counter, wloc, result, cpc, joined, final, ret, hist>>

\* lines 279-281: one turn of the join loop
DirectJoin ==
    /\ prog = "direct" /\ cpc = "join" /\ joined < num_threads
    /\ LET w == NextHandle IN
        /\ JoinReady(w)
        /\ IF JoinIsErr(w)
           THEN /\ cpc' = "panicked"
                /\ UNCHANGED joined
           ELSE /\ joined' = joined + 1
                /\ UNCHANGED cpc
    /\ UNCHANGED <<prog, sp, digits, num_threads, precision, terms_needed, ranges,
                   counter, wpc, wloc, lock, result, final, ret, hist>>

\* lines 284-297: the sum is read under the lock, pi is formed from it and returned
DirectReturn ==
    /\ prog = "direct" /\ cpc = "join" /\ joined = num_threads
    /\ MutexAvailable(lock)
    /\ IF lock.poisoned
       THEN /\ cpc' = "panicked"
            /\ UNCHANGED <<final, ret>>
       ELSE /\ final' = result
            /\ ret' = [sum |-> result, prec |-> precision]
            /\ cpc' = "returned"
    /\ UNCHANGED <<prog, sp, digits, num_threads, precision, terms_needed, ranges,
                   counter, wpc, wloc, lock, result, joined, hist>>

NextDirect ==
    \/ DirectSpawn \/ DirectJoin \/ DirectReturn
    \/ \E w \in DOMAIN wpc : DirectClaim(w)
    \/ \E w \in DOMAIN wpc : DirectChunk(w)
    \/ \E w \in DOMAIN wpc : DirectLock(w)
    \/ \E w \in DOMAIN wpc : DirectMerge(w)

(***************************************************************************)
(* main.chudnovsky0.rs: ChudnovskyIter and compute_pi_chudnovsky.  The     *)
(* iterator is kept as its index and the signs of its Floats: factor is    *)
(* negative for every k >= 1 and lk is positive.                           *)
(* An operation binds the iterator it is given in a one-element set, so    *)
(* that a chain of next_term calls is evaluated once.                      *)
(***************************************************************************)
ChudnovskyIterNew == [k |-> 0, m_k_neg |-> FALSE, sign |-> 1, current_term_neg |-> FALSE]

next_term(iter0) ==
    LET Advanced(iter) ==
        LET k1    == iter.k + 1
            m_neg == ~iter.m_k_neg
            sgn   == IF k1 % 2 = 0 THEN 1 ELSE -1
        IN  [k |-> k1, m_k_neg |-> m_neg, sign |-> sgn,
             current_term_neg |-> (m_neg # (sgn = -1))]
    IN  CHOOSE v \in {Advanced(iter) : iter \in {iter0}} : TRUE

\* for _ in 0..n { iter.next_term() }, the n calls taken in two halves
RECURSIVE IterSkip(_, _)
IterSkip(iter0, n0) ==
    LET Skipped(iter, n) ==
        IF n = 0 THEN iter
        ELSE IF n = 1 THEN next_term(iter)
        ELSE IterSkip(IterSkip(iter, n \div 2), n - (n \div 2))
    IN  CHOOSE v \in {Skipped(iter, n) : iter \in {iter0}, n \in {n0}} : TRUE

\* sum_next_n_terms: the terms added to sum, in order; the n turns of the loop
\* taken in two halves
RECURSIVE sum_next_n_terms(_, _)
sum_next_n_terms(iter0, n0) ==
    LET Terms(iter, n) ==
        IF n = 0 THEN <<>>
        ELSE IF n = 1 THEN <<[k |-> iter.k, neg |-> iter.current_term_neg]>>
        ELSE sum_next_n_terms(iter, n \div 2)
                \o sum_next_n_terms(IterSkip(iter, n \div 2), n - (n \div 2))
    IN  CHOOSE v \in {Terms(iter, n) : iter \in {iter0}, n \in {n0}} : TRUE

\* an iterator that is created and not advanced
ChunkIterNotAdvanced(prec, start_term) == ChudnovskyIterNew

\* lines 148-154: ChudnovskyIter::new(prec), then start_term calls of next_term
ChunkIter(prec, start_term) == IterSkip(ChudnovskyIterNew, start_term)

\* (digits as f64 / 14.18).ceil() as usize + 2
IterTermsNeeded(d) == CeilDiv(d * 100, 1418) + 2

\* digit counts of at most MaxChunks chunks
IterDigits == {d \in MutexDigits : CeilDiv(IterTermsNeeded(d), chunk_size) <= MaxChunks}

InitIter ==
    /\ prog = "iter"
    /\ sp = NoSplit
    /\ digits \in IterDigits
    /\ num_threads \in 1..MaxThreads
    /\ precision = PrecisionBits(digits, 10)
    /\ terms_needed = IterTermsNeeded(digits)
    /\ ranges = <<>> /\ counter = 0
    /\ wpc = [w \in 1..num_threads |-> "unspawned"]
    /\ wloc = [w \in 1..num_threads |->
                [local_sum |-> <<>>, chunk_idx |-> -1, claimed |-> <<>>, locks |-> 0,
                 late |-> FALSE]]
    /\ lock = MutexNew /\ result = <<>> /\ cpc = "spawn" /\ joined = 0
    /\ final = <<>> /\ ret = None /\ hist = <<>>

\* lines 126-169: the next thread::spawn
IterSpawn ==
    /\ prog = "iter" /\ cpc = "spawn"
    /\ \E w \in DOMAIN wpc :
        /\ IsNextToSpawn(w)
        /\ wpc' = [wpc EXCEPT ![w] = "loop"]
        /\ cpc' = AfterSpawn(w)
    /\ UNCHANGED <<prog, sp, digits, num_threads, precision, terms_needed, ranges,
                   counter, wloc, lock, result, joined, final, ret, hist>>

\* lines 136-141: the thread takes a chunk index or leaves the loop
IterClaim(w) ==
    /\ prog = "iter" /\ wpc[w] = "loop"
    /\ LET chunk_idx == counter
           start_term == chunk_idx * chunk_size
           brk == start_term >= terms_needed
       IN
        /\ counter' = fetch_add(counter)
        /\ wpc' = [wpc EXCEPT ![w] = ThreadFlow("loop", brk)]
        /\ wloc' = IF brk THEN [wloc EXCEPT ![w].late = @ \/ wloc[w].locks > 0]
                   ELSE [wloc EXCEPT ![w].chunk_idx = chunk_idx,
                                     ![w].claimed = Append(@, chunk_idx),
                                     ![w].late = @ \/ wloc[w].locks > 0]
    /\ UNCHANGED <<prog, sp, digits, num_threads, precision, terms_needed, ranges,
                   lock, result, cpc, joined, final, ret, hist>>

\* lines 143-160: the body of the loop for the chunk, with an iterator of its own
IterChunk(w) ==
    /\ prog = "iter" /\ wpc[w] = "compute"
    /\ LET start_term == wloc[w].chunk_idx * chunk_size
           end_term == Min(start_term + chunk_size, terms_needed)
           terms_in_chunk == end_term - start_term
       IN  IF terms_in_chunk = 0
           THEN wloc' = [wloc EXCEPT ![w].late = @ \/ wloc[w].locks > 0]
           ELSE LET iter == ChunkIter(precision, start_term)
                    chunk_sum == sum_next_n_terms(iter, terms_in_chunk)
                IN  wloc' = [wloc EXCEPT
                               ![w].local_sum = @ \o chunk_sum,
                               ![w].late = @ \/ wloc[w].locks > 0]
    /\ wpc' = [wpc EXCEPT ![w] = ThreadFlow("compute", FALSE)]
    /\ UNCHANGED <<prog, sp, digits, num_threads, precision, terms_needed, ranges,
                   counter, lock, result, cpc, joined, final, ret, hist>>

\* line 164: result.lock().unwrap(), which panics if the Mutex is poisoned
IterLock(w) ==
    /\ prog = "iter" /\ wpc[w] = "lock"
    /\ MutexAvailable(lock)
    /\ IF lock.poisoned
       THEN /\ wpc' = [wpc EXCEPT ![w] = "panicked"]
            /\ UNCHANGED <<lock, wloc>>
       ELSE /\ wpc' = [wpc EXCEPT ![w] = ThreadFlow("lock", FALSE)]
            /\ wloc' = [wloc EXCEPT ![w].locks = @ + 1]
            /\ lock' = [lock EXCEPT !.holder = w]
    /\ UNCHANGED <<prog, sp, digits, num_threads, precision, terms_needed, ranges,
                   counter, result, cpc, joined, final, ret, hist>>

\* lines 165-166: *global_sum += &local_sum, and the guard is dropped
IterMerge(w) ==
    /\ prog = "iter" /\ wpc[w] = "merge"
    /\ result' = result \o wloc[w].local_sum
    /\ lock' = MutexGuardDrop(lock)
    /\ wpc' = [wpc EXCEPT ![w] = ThreadFlow("merge", FALSE)]
    /\ UNCHANGED <<prog, sp, digits, num_threads, precision, terms_needed, ranges,
                   counter, wloc, cpc, joined, final, ret, hist>>

\* lines 172-174: one turn of the join loop
IterJoin ==
    /\ prog = "iter" /\ cpc = "join" /\ joined < num_threads
    /\ LET w == NextHandle IN
        /\ JoinReady(w)
        /\ IF JoinIsErr(w)
           THEN /\ cpc' = "panicked"
                /\ UNCHANGED joined
           ELSE /\ joined' = joined + 1
                /\ UNCHANGED cpc
    /\ UNCHANGED <<prog, sp, digits, num_threads, precision, terms_needed, ranges,
                   counter, wpc, wloc, lock, result, final, ret, hist>>

\* lines 177-191: the sum is read under the lock, pi is formed from it and returned
IterReturn ==
    /\ prog = "iter" /\ cpc = "join" /\ joined = num_threads
    /\ MutexAvailable(lock)
    /\ IF lock.poisoned
       THEN /\ cpc' = "panicked"
            /\ UNCHANGED <<final, ret>>
       ELSE /\ final' = result
            /\ ret' = [sum |-> result, prec |-> precision]
            /\ cpc' = "returned"
    /\ UNCHANGED <<prog, sp, digits, num_threads, precision, terms_needed, ranges,
                   counter, wpc, wloc, lock, result, joined, hist>>

NextIter ==
    \/ IterSpawn \/ IterJoin \/ IterReturn
    \/ \E w \in DOMAIN wpc : IterClaim(w)
    \/ \E w \in DOMAIN wpc : IterChunk(w)
    \/ \E w \in DOMAIN wpc : IterLock(w)
    \/ \E w \in DOMAIN wpc : IterMerge(w)

(***************************************************************************)
(* The two programs with the Mutex side by side.                           *)
(***************************************************************************)
InitMutex == InitDirect \/ InitIter

NextMutex == NextDirect \/ NextIter

SpecMutex == InitMutex /\ [][NextMutex]_vars

(***************************************************************************)
(* The two programs whose threads take their work from a counter, one term *)
(* at a time and one chunk at a time.                                      *)
(***************************************************************************)
InitSteal == InitOpt \/ InitDirect

NextSteal == NextOpt \/ NextDirect

SpecSteal == InitSteal /\ [][NextSteal]_vars

(***************************************************************************)
(* The three programs of main.ava.opt.noimprove.rs and main.chudnovsky.rs  *)
(* with threads that may panic.                                            *)
(***************************************************************************)
InitPanic == InitOpt \/ InitDirect \/ InitPi

NextPanic ==
    \/ NextOpt \/ NextDirect \/ NextPi
    \/ \E w \in DOMAIN wpc : OptPanic(w)
    \/ \E w \in DOMAIN wpc : DirectPanic(w)
    \/ \E w \in DOMAIN wpc : PiWorkerPanic(w)

SpecPanic == InitPanic /\ [][NextPanic]_vars

(***************************************************************************)
(* compute_binary_split as the machine runs it: a stack of calls.  A frame *)
(* is a call (a, b) and the place it has reached: "enter" before the test  *)
(* of line 42, "left" inside the call of line 82, "right" inside the call  *)
(* of line 83.  b - a is a u64 subtraction: with overflow checks (a debug  *)
(* build) it panics when a > b, without them (a release build) it wraps    *)
(* modulo 2^64.  The stack of the thread holds MaxStackDepth frames; one   *)
(* more call overflows it and the process is aborted.                      *)
(***************************************************************************)
MaxStackDepth == 8

\* 2^64
U64Modulus == BigPow(BigFrom(2), 64)

\* b - a on u64 without overflow checks, as an Integer
WrappingSub(b, a) ==
    IF b >= a THEN BigFrom(b - a) ELSE BigAdd(U64Modulus, BigFrom(b - a))

Frame(a, b) == [a |-> a, b |-> b, at |-> "enter", left |-> None]

\* a frame above the last one: the call is made if the stack has room for it
Push(stack, frame) == Append(stack, frame)

Pop(stack) == SubSeq(stack, 1, Len(stack) - 1)

Top(stack) == stack[Len(stack)]

InitCall ==
    /\ prog = "call"
    /\ \E a \in 0..MaxIndex, b \in 0..MaxIndex, checks \in BOOLEAN :
          sp = [a |-> a, b |-> b, overflow_checks |-> checks, pc |-> "running",
                stack |-> <<Frame(a, b)>>, value |-> None, calls |-> 1]
    /\ IdleThreads

\* line 42, then the base case (lines 43-78) or the first call (lines 81-82)
CallEnter ==
    /\ prog = "call" /\ sp.pc = "running"
    /\ Top(sp.stack).at = "enter"
    /\ LET f == Top(sp.stack) IN
        IF f.a > f.b /\ sp.overflow_checks
        THEN sp' = [sp EXCEPT !.pc = "overflow_panic"]
        ELSE IF WrappingSub(f.b, f.a) = BigFrom(1)
        THEN sp' = [sp EXCEPT !.value = BaseCase(f.a), !.stack = Pop(@),
                              !.pc = IF Len(sp.stack) = 1 THEN "returned" ELSE "running"]
        ELSE IF Len(sp.stack) >= MaxStackDepth
        THEN sp' = [sp EXCEPT !.pc = "stack_overflow"]
        ELSE LET m == (f.a + f.b) \div 2 IN
             sp' = [sp EXCEPT
                      !.stack = Push([@ EXCEPT ![Len(@)].at = "left"], Frame(f.a, m)),
                      !.calls = @ + 1]
    /\ UNCHANGED <<prog, threadVars>>

\* line 82 has returned (p1, q1, t1); line 83 calls the right half
CallRight ==
    /\ prog = "call" /\ sp.pc = "running"
    /\ Top(sp.stack).at = "left"
    /\ LET f == Top(sp.stack)
           m == (f.a + f.b) \div 2
       IN  sp' = [sp EXCEPT
                    !.stack = Push([@ EXCEPT ![Len(@)].at = "right",
                                             ![Len(@)].left = sp.value],
                                   Frame(m, f.b)),
                    !.calls = @ + 1]
    /\ UNCHANGED <<prog, threadVars>>

\* line 83 has returned (p2, q2, t2); lines 86-93 merge and return
CallMerge ==
    /\ prog = "call" /\ sp.pc = "running"
    /\ Top(sp.stack).at = "right"
    /\ sp' = [sp EXCEPT !.value = Merge(Top(sp.stack).left, sp.value), !.stack = Pop(@),
                        !.pc = IF Len(sp.stack) = 1 THEN "returned" ELSE "running"]
    /\ UNCHANGED <<prog, threadVars>>

NextCall == CallEnter \/ CallRight \/ CallMerge

SpecCall == InitCall /\ [][NextCall]_vars

(***************************************************************************)
(* The compute functions called with any arguments, 0 digits and 0 threads *)
(* included: the head of each function up to its spawn loop, then the      *)
(* actions above.  With no thread to spawn the loop of the calling thread  *)
(* ends at once.                                                           *)
(***************************************************************************)
\* where the calling thread is after the head of the function
AfterPlan(threads) == IF threads = 0 THEN "join" ELSE "spawn"

InitArgs ==
    /\ \/ /\ prog = "opt"
          /\ digits \in 0..MaxBBPDigits
          /\ num_threads \in 0..MaxBBPThreads
       \/ /\ prog = "direct"
          /\ digits \in {0} \cup MutexDigits
          /\ num_threads \in 0..MaxThreads
       \/ /\ prog = "compute_pi"
          /\ digits \in {0} \cup PiDigits
          /\ num_threads \in 0..MaxThreads
    /\ sp = NoSplit
    /\ precision = 0 /\ terms_needed = 0
    /\ ranges = <<>> /\ counter = 0 /\ wpc = <<>> /\ wloc = <<>>
    /\ lock = None /\ result = None /\ cpc = "start" /\ joined = 0
    /\ final = None /\ ret = None /\ hist = <<>>

\* main.ava.opt.noimprove.rs lines 103-123
OptPlan ==
    /\ prog = "opt" /\ cpc = "start"
    /\ precision' = PrecisionBits(digits, 10)
    /\ terms_needed' = BBPTermsNeeded(precision')
    /\ wpc' = [w \in 1..num_threads |-> "unspawned"]
    /\ wloc' = [w \in 1..num_threads |->
                 [calculator |-> BBPCalculatorNew(precision'), local_sum |-> <<>>, k |-> -1]]
    /\ final' = <<>>
    /\ cpc' = AfterPlan(num_threads)
    /\ UNCHANGED <<prog, sp, digits, num_threads, ranges, counter, lock, result,
                   joined, ret, hist>>

\* main.chudnovsky.rs lines 209-233
DirectPlan ==
    /\ prog = "direct" /\ cpc = "start"
    /\ precision' = PrecisionBits(digits, 10)
    /\ terms_needed' = DirectTermsNeeded(digits)
    /\ wpc' = [w \in 1..num_threads |-> "unspawned"]
    /\ wloc' = [w \in 1..num_threads |->
                 [local_sum |-> <<>>, chunk_idx |-> -1, claimed |-> <<>>, locks |-> 0,
                  late |-> FALSE]]
    /\ lock' = MutexNew /\ result' = <<>> /\ final' = <<>>
    /\ cpc' = AfterPlan(num_threads)
    /\ UNCHANGED <<prog, sp, digits, num_threads, ranges, counter, joined, ret, hist>>

NextArgs == OptPlan \/ DirectPlan \/ NextOpt \/ NextDirect \/ NextPi

SpecArgs == InitArgs /\ [][NextArgs]_vars

(***************************************************************************)
(* The drivers' plan: get_user_input accepts a digit count, then the       *)
(* compute function derives the working precision and the number of terms. *)
(* The f64 expressions are evaluated on exact integers of any size (for    *)
(* the digit counts the drivers accept, and twice beyond, the f64 results  *)
(* are these exact values); the u32 cast and the u32 addition keep their   *)
(* width.  Programs: "opt" main.ava.opt.noimprove.rs, "hybrid"             *)
(* main.chudnovsky.rs, "iter" main.chudnovsky0.rs, "w0" main.w0.rs.        *)
(***************************************************************************)
PlanWindow == 12     \* digit counts are taken within PlanWindow of each threshold

\* the limbs of x divided by y from the top limb down, r the remainder brought in
\* from the limbs above: the upper half of the limbs, then the lower half
RECURSIVE MagDivFrom(_, _, _)
MagDivFrom(x, y, r) ==
    IF Len(x) = 0 THEN [q |-> <<>>, r |-> r]
    ELSE IF Len(x) = 1
    THEN LET cur == r * Radix + x[1] IN [q |-> <<cur \div y>>, r |-> cur % y]
    ELSE LET mid == Len(x) \div 2
             hi  == MagDivFrom(SubSeq(x, mid + 1, Len(x)), y, r)
             lo  == MagDivFrom(SubSeq(x, 1, mid), y, hi.r)
         IN  \* a remainder is below y: the test has the upper half divided first
             IF hi.r < y /\ lo.r < y THEN [q |-> lo.q \o hi.q, r |-> lo.r]
             ELSE [q |-> <<>>, r |-> 0]

\* x \div y and x % y for a magnitude x and a machine integer y
MagDivSmall(x, y) == MagDivFrom(x, y, 0)

\* ceil(d * num / den) as an Integer
CeilRatio(d, num, den) ==
    LET qr == MagDivSmall(MagMul(MagFromNat(d), MagFromNat(num)), den)
    IN  BigAdd(BigMake(FALSE, MagStrip(qr.q)), BigFrom(IF qr.r = 0 THEN 0 ELSE 1))

\* floor(x / y) of a non-negative Integer by a machine integer
BigDivSmall(x, y) == BigMake(FALSE, MagStrip(MagDivSmall(x.mag, y).q))

\* the machine integer of an Integer below 2^31
RECURSIVE MagToNat(_)
MagToNat(x) == IF x = <<>> THEN 0 ELSE Head(x) + Radix * MagToNat(Tail(x))

BigLess(x, y) == BigAdd(x, BigNeg(y)).neg

\* 2^32
U32Modulus == BigPow(BigFrom(2), 32)

\* f as u32 for a non-negative f64 with an integer value: the cast saturates
AsU32(f) == IF BigLess(f, U32Modulus) THEN f ELSE BigAdd(U32Modulus, BigFrom(-1))

\* ((digits as f64) * 3.32193).ceil() as u32 + guard; the u32 addition
\* panics on overflow with overflow checks and wraps without them
precision_u32(d, guard, overflow_checks) ==
    LET sum == BigAdd(AsU32(CeilRatio(d, 332193, 100000)), BigFrom(guard))
    IN  IF BigLess(sum, U32Modulus) THEN [value |-> sum, overflow |-> FALSE, panic |-> FALSE]
        ELSE [value    |-> BigAdd(sum, BigNeg(U32Modulus)),
              overflow |-> TRUE,
              panic    |-> overflow_checks]

PlanPrograms == {"opt", "hybrid", "iter", "w0"}

\* the guard bits each program adds to the precision
GuardBits(p) == IF p = "w0" THEN 32 ELSE 10

\* get_user_input: the digit counts the driver lets through.  main.w0.rs
\* asks for log10 of the digit count in [1.0, 6.0] and rounds 10^log10.
MinAccepted(p) == IF p = "w0" THEN 10 ELSE 1

MaxAcceptedUnchecked(p) == 2000000000

MaxAccepted(p) == IF p = "hybrid" THEN 1000000000 ELSE 1000000

\* compute_pi_hybrid: requests up to hybrid_threshold digits go to the direct sum
hybrid_threshold == 10000

HybridPath(d) == IF d <= hybrid_threshold THEN "direct" ELSE "binary_split"

\* min(ceil(d / 14.18), max_terms) with a cap that wraps around instead
CappedTermsWrapped(d) == MagToNat(CeilRatio(d, 100, 1418).mag) % max_terms

\* compute_pi: let terms_needed = ...; if terms_needed > max_terms { max_terms }
CappedTerms(d) ==
    LET t == CeilRatio(d, 100, 1418)
    IN  IF BigLess(BigFrom(max_terms), t) THEN max_terms ELSE MagToNat(t.mag)

\* let terms_needed of each program, from digits and the planned precision
PlanTermsNeeded(p, d, prec) ==
    CASE p = "opt"    -> MagToNat(BigDivSmall(prec, 4).mag) + 10
      [] p = "hybrid" -> IF HybridPath(d) = "direct"
                         THEN MagToNat(CeilRatio(d, 100, 1418).mag)
                         ELSE CappedTerms(d)
      [] p = "iter"   -> MagToNat(CeilRatio(d, 100, 1418).mag) + 2
      [] p = "w0"     -> MagToNat(CeilRatio(d, 1, 14).mag) + 2

\* what is typed at the prompt: around zero, around the selector's threshold,
\* around the digit count at which the cap on the terms sets in, around the maximum
Typed(p) ==
    LET cap == (max_terms * 1418) \div 100
    IN  (0..PlanWindow)
          \cup ((hybrid_threshold - PlanWindow)..(hybrid_threshold + PlanWindow))
          \cup ((cap - PlanWindow)..(cap + PlanWindow))
          \cup ((MaxAccepted(p) - PlanWindow)..(MaxAccepted(p) + PlanWindow))

InitPlan ==
    /\ prog \in PlanPrograms
    /\ sp \in [overflow_checks : BOOLEAN, rejected : {None}, path : {"prompt"},
               overflow : {FALSE}]
    /\ digits = 0
    /\ num_threads = 1
    /\ precision = BigFrom(0)
    /\ terms_needed = 0
    /\ ranges = <<>>
    /\ counter = 0
    /\ wpc = <<>>
    /\ wloc = <<>>
    /\ lock = MutexNew
    /\ result = None
    /\ cpc = "prompt"
    /\ joined = 0
    /\ final = None
    /\ ret = None
    /\ hist = <<>>

planVars == <<prog, num_threads, ranges, counter, wpc, wloc, lock, result, joined,
              final, ret, hist>>

\* get_user_input: a count in range leaves the loop, any other is asked again
GetUserInput ==
    /\ prog \in PlanPrograms
    /\ cpc = "prompt"
    /\ \E n \in Typed(prog) :
          IF MinAccepted(prog) <= n /\ n <= MaxAccepted(prog)
          THEN /\ digits' = n
               /\ cpc' = "accepted"
               /\ sp' = [sp EXCEPT !.rejected = None,
                                    !.path = IF prog = "hybrid" THEN HybridPath(n) ELSE prog]
          ELSE /\ sp' = [sp EXCEPT !.rejected = n]
               /\ UNCHANGED <<digits, cpc>>
    /\ UNCHANGED <<precision, terms_needed>>
    /\ UNCHANGED planVars

\* compute_pi plans its terms before its precision, the others the precision first
TermsFirst == prog = "hybrid" /\ sp.path = "binary_split"

PlanPrecision ==
    /\ prog \in PlanPrograms
    /\ cpc = IF TermsFirst THEN "terms" ELSE "accepted"
    /\ LET p == precision_u32(digits, GuardBits(prog), sp.overflow_checks)
       IN  /\ sp' = [sp EXCEPT !.overflow = p.overflow]
           /\ IF p.panic
              THEN /\ cpc' = "panic"
                   /\ UNCHANGED precision
              ELSE /\ precision' = p.value
                   /\ cpc' = IF TermsFirst THEN "planned" ELSE "precision"
    /\ UNCHANGED <<digits, terms_needed>>
    /\ UNCHANGED planVars

PlanTerms ==
    /\ prog \in PlanPrograms
    /\ cpc = IF TermsFirst THEN "accepted" ELSE "precision"
    /\ terms_needed' = PlanTermsNeeded(prog, digits, precision)
    /\ cpc' = IF TermsFirst THEN "terms" ELSE "planned"
    /\ UNCHANGED <<digits, precision, sp>>
    /\ UNCHANGED planVars

NextPlan == GetUserInput \/ PlanPrecision \/ PlanTerms

SpecPlan == InitPlan /\ [][NextPlan]_vars

(***************************************************************************)
(* The renderers.  The digit text of the output file is a sequence of      *)
(* characters; the header and the statistics lines around it are left out. *)
(* A renderer is called with a Float pi of pi.prec() bits and with digits. *)
(* The model calls it with every Float of RenderPrec bits in [3, 3.5).     *)
(***************************************************************************)
RenderPrec == 8          \* pi.prec() of the Floats the renderers are called with
MaxRenderDigits == 12    \* digits runs over 1..MaxRenderDigits and the counts around LineDigits

\* x * y rounded to prec bits
FloatMul(x, y, prec) ==
    IF x.m = 0 \/ y.m = 0 THEN FloatZero(prec)
    ELSE FloatRound(x.neg # y.neg, x.m * y.m, x.e + y.e, FALSE, prec)

\* floor(|x|) of a Float
FloatFloorMag(x) ==
    IF x.e >= 0 THEN x.m * Pow2(x.e)
    ELSE IF -x.e > 30 THEN 0
    ELSE x.m \div Pow2(-x.e)

\* Float::to_integer().unwrap(): the nearest integer, ties to even (rug
\* converts with MPFR's round-to-nearest)
to_integer(x) ==
    LET q    == FloatFloorMag(x)
        den  == IF x.e >= 0 \/ -x.e > 30 THEN 1 ELSE Pow2(-x.e)
        rem  == IF x.e >= 0 \/ -x.e > 30 THEN 0 ELSE x.m % den
        up   == 2 * rem > den \/ (2 * rem = den /\ q % 2 = 1)
        mag  == IF up THEN q + 1 ELSE q
    IN  IF x.neg THEN -mag ELSE mag

\* Integer::to_u32(): None (the empty sequence) for a negative Integer, else Some
to_u32(i) == IF i < 0 THEN <<>> ELSE <<i>>

DigitChars == <<"0", "1", "2", "3", "4", "5", "6", "7", "8", "9">>

\* write!(writer, "{}", n) for an unsigned n: its decimal digits
RECURSIVE DisplayUnsigned(_)
DisplayUnsigned(n) ==
    IF n < 10 THEN <<DigitChars[n + 1]>>
    ELSE DisplayUnsigned(n \div 10) \o <<DigitChars[(n % 10) + 1]>>

\* digits per line of the output
LineDigits == 50

RenderDigits == (1..MaxRenderDigits) \cup ((LineDigits - 1)..(LineDigits + 2))

\* the Floats of prec bits in [3, 3.5): approximations of pi
RenderInputs(prec) ==
    {[neg |-> FALSE, m |-> m, e |-> 2 - prec, prec |-> prec] :
        m \in (6 * Pow2(prec - 3))..(7 * Pow2(prec - 3) - 1)}

(***************************************************************************)
(* main.w0.rs write_pi_to_file_optimized: the digits one at a time.        *)
(* sp = [pi, remainder, i, out, scaled, digit_int]: scaled is remainder    *)
(* after remainder *= &ten of the last turn of the loop.                   *)
(***************************************************************************)
renderVars == <<num_threads, precision, terms_needed, ranges, counter, wpc, wloc, lock,
                result, joined, final, ret, hist>>

InitRender(p) ==
    /\ prog = p
    /\ digits \in RenderDigits
    /\ \E pi \in RenderInputs(RenderPrec) :
          sp = [pi |-> pi, remainder |-> FloatZero(pi.prec), i |-> 0, out |-> <<>>,
                scaled |-> FloatZero(pi.prec), digit_int |-> 0]
    /\ num_threads = 1
    /\ precision = RenderPrec
    /\ terms_needed = 0
    /\ ranges = <<>>
    /\ counter = 0
    /\ wpc = <<>>
    /\ wloc = <<>>
    /\ lock = MutexNew
    /\ result = None
    /\ cpc = "start"
    /\ joined = 0
    /\ final = None
    /\ ret = None
    /\ hist = <<>>

InitStream == InitRender("stream")

\* write!(writer, "3."); remainder = pi; remainder -= 3
StreamOpen ==
    /\ prog = "stream"
    /\ cpc = "start"
    /\ sp' = [sp EXCEPT !.out = <<"3", ".">>,
                        !.remainder = FloatSub(sp.pi, FloatFromInt(3, sp.pi.prec), sp.pi.prec)]
    /\ cpc' = "loop"
    /\ UNCHANGED <<prog, digits>>
    /\ UNCHANGED renderVars

\* the separator after the digit of index i, lines 226-230
StreamSeparator(i) ==
    IF (i + 1) % LineDigits = 0 THEN <<"\n">>
    ELSE IF (i + 1) % 10 = 0 THEN <<" ">>
    ELSE <<>>

\* one turn of for i in 0..digits
StreamDigit ==
    /\ prog = "stream"
    /\ cpc = "loop"
    /\ sp.i < digits
    /\ LET prec      == sp.pi.prec
           scaled    == FloatMul(sp.remainder, FloatFromInt(10, prec), prec)
           digit_int == to_integer(scaled)
           option    == to_u32(digit_int)
           digit     == option[1] % 256
       IN  IF option = <<>>
           THEN /\ cpc' = "panic"
                /\ sp' = [sp EXCEPT !.scaled = scaled, !.digit_int = digit_int]
           ELSE /\ cpc' = "loop"
                /\ sp' = [sp EXCEPT !.scaled = scaled,
                                    !.digit_int = digit_int,
                                    !.remainder = FloatSub(scaled, FloatFromInt(digit, prec), prec),
                                    !.out = sp.out \o DisplayUnsigned(digit)
                                                   \o StreamSeparator(sp.i),
                                    !.i = sp.i + 1]
    /\ UNCHANGED <<prog, digits>>
    /\ UNCHANGED renderVars

\* the loop has ended
StreamClose ==
    /\ prog = "stream"
    /\ cpc = "loop"
    /\ sp.i = digits
    /\ cpc' = "done"
    /\ UNCHANGED <<prog, digits, sp>>
    /\ UNCHANGED renderVars

NextStream == StreamOpen \/ StreamDigit \/ StreamClose

SpecStream == InitStream /\ [][NextStream]_vars

(***************************************************************************)
(* Float::to_string_radix(10, Some(n)): n significant decimal digits,      *)
(* rounded to nearest, no zeros stripped.  With exp the number of digits   *)
(* before the point (10^(exp-1) <= |x| < 10^exp after rounding), the point *)
(* stands after exp digits when 1 <= exp < n and is left out when exp = n  *)
(* ("3.14", "23.00", "200"); for any other exp the point follows the first *)
(* digit and the exponent exp - 1 is appended ("1.00e3", "6.25e-2").  A    *)
(* zero is "0".  The value and its digits are bound in one-element sets,   *)
(* so that each is evaluated once.                                         *)
(***************************************************************************)
\* x \div 2^s of a magnitude, twenty bits at a time, and whether nothing was shifted out
RECURSIVE MagShiftRight(_, _)
MagShiftRight(x, s) ==
    IF s = 0 THEN [q |-> MagStrip(x), exact |-> TRUE]
    ELSE LET t    == IF s > 20 THEN 20 ELSE s
             qr   == MagDivSmall(x, Pow2(t))
             rest == MagShiftRight(MagStrip(qr.q), s - t)
         IN  [q |-> rest.q, exact |-> rest.exact /\ qr.r = 0]

\* x \div 10^j of a magnitude, three digits at a time, and whether nothing was cut off
RECURSIVE MagDivTens(_, _)
MagDivTens(x, j) ==
    IF j = 0 THEN [q |-> MagStrip(x), exact |-> TRUE]
    ELSE LET t    == IF j > 3 THEN 3 ELSE j
             qr   == MagDivSmall(x, IF t = 3 THEN 1000 ELSE IF t = 2 THEN 100 ELSE 10)
             rest == MagDivTens(MagStrip(qr.q), j - t)
         IN  [q |-> rest.q, exact |-> rest.exact /\ qr.r = 0]

\* floor(2 * |x| * 10^k) for any integer k, and whether it is 2 * |x| * 10^k
TwiceScaled(x, k) ==
    LET up    == MagMul(MagMul(MagFromNat(2 * x.m), BigPow(BigFrom(10), IF k > 0 THEN k ELSE 0).mag),
                        BigPow(BigFrom(2), IF x.e > 0 THEN x.e ELSE 0).mag)
        bits  == MagShiftRight(up, IF x.e < 0 THEN -x.e ELSE 0)
        tens  == MagDivTens(bits.q, IF k < 0 THEN -k ELSE 0)
    IN  [q |-> tens.q, exact |-> bits.exact /\ tens.exact]

\* the least exp from E on with |x| < 10^exp
RECURSIVE DecimalExponentFrom(_, _)
DecimalExponentFrom(x, E) ==
    IF Len(TwiceScaled(x, -E).q) = 0 \/ TwiceScaled(x, -E).q = <<1>> THEN E
    ELSE DecimalExponentFrom(x, E + 1)

\* the exp with 10^(exp-1) <= |x| < 10^exp of a Float that is not zero; the
\* search starts below it: 2^(b-1) <= |x| with b the bits before the point
DecimalExponent(x) ==
    LET b == BitLen(x.m) + x.e
    IN  DecimalExponentFrom(x, IF b >= 1 THEN (3 * (b - 1)) \div 10
                               ELSE (31 * (b - 1)) \div 100)

\* the n significant digits of x as an Integer, to nearest and ties to even,
\* and exp: |x| is about 0.d1...dn * 10^exp (mpfr_get_str)
SignificantDigits(x, n) ==
    LET Nearest(E, twice) ==
            LET half == MagDivSmall(twice.q, 2)
                q    == BigMake(FALSE, MagStrip(half.q))
                odd  == Limb(q.mag, 1) % 2 = 1
                D    == IF half.r = 1 /\ (~twice.exact \/ odd) THEN BigAdd(q, BigFrom(1)) ELSE q
            IN  IF D = BigPow(BigFrom(10), n)
                THEN [mag |-> BigPow(BigFrom(10), n - 1).mag, exp |-> E + 1]
                ELSE [mag |-> D.mag, exp |-> E]
        Scaled(E) == CHOOSE v \in {Nearest(E, twice) : twice \in {TwiceScaled(x, n - E)}} : TRUE
    IN  CHOOSE v \in {Scaled(E) : E \in {DecimalExponent(x)}} : TRUE

\* the decimal digit of weight 10^j of a magnitude
DecimalDigit(mag, j) ==
    (Limb(mag, (j \div 3) + 1) \div (IF j % 3 = 0 THEN 1 ELSE IF j % 3 = 1 THEN 10 ELSE 100)) % 10

to_string_radix(x0, n) ==
    LET Rendered(x) ==
        IF x.m = 0 THEN (IF x.neg THEN <<"-">> ELSE <<>>) \o <<"0">>
        ELSE
        LET Placed(sd) ==
            LET ds   == Vec([k \in 1..n |-> DigitChars[DecimalDigit(sd.mag, n - k) + 1]], n)
                exp  == sd.exp
                sign == IF x.neg THEN <<"-">> ELSE <<>>
                e10  == IF exp - 1 < 0 THEN <<"-">> \o DisplayUnsigned(1 - exp)
                        ELSE DisplayUnsigned(exp - 1)
            IN  IF exp = n THEN sign \o ds
                ELSE IF 1 <= exp /\ exp < n
                THEN sign \o SubSeq(ds, 1, exp) \o <<".">> \o SubSeq(ds, exp + 1, n)
                ELSE sign \o (IF n = 1 THEN ds ELSE <<ds[1], ".">> \o SubSeq(ds, 2, n))
                          \o <<"e">> \o e10
        IN  CHOOSE v \in {Placed(sd) : sd \in {SignificantDigits(x, n)}} : TRUE
    IN  CHOOSE v \in {Rendered(x) : x \in {x0}} : TRUE

(***************************************************************************)
(* main.chudnovsky.rs write_pi_to_file (main.chudnovsky0.rs has the same): *)
(* one string, then character by character.                                *)
(* sp = [pi, pi_str, pos, count, out]: pos characters of pi_str are used.  *)
(***************************************************************************)
InitString == InitRender("string")

\* pi_str, then the first two characters as they are
StringOpen ==
    /\ prog = "string"
    /\ cpc = "start"
    /\ LET pi_str == to_string_radix(sp.pi, digits)
           pos    == Min(2, Len(pi_str))
       IN  sp' = [pi |-> sp.pi, pi_str |-> pi_str, pos |-> pos, count |-> 0,
                  out |-> SubSeq(pi_str, 1, pos)]
    /\ cpc' = "loop"
    /\ UNCHANGED <<prog, digits>>
    /\ UNCHANGED renderVars

\* one turn of for ch in chars
StringChar ==
    /\ prog = "string"
    /\ cpc = "loop"
    /\ sp.pos < Len(sp.pi_str)
    /\ LET count == sp.count + 1
       IN  sp' = [sp EXCEPT !.pos = sp.pos + 1,
                            !.count = count,
                            !.out = sp.out \o <<sp.pi_str[sp.pos + 1]>>
                                           \o (IF count % 10 = 0 THEN <<" ">> ELSE <<>>)
                                           \o (IF count % LineDigits = 0 THEN <<"\n">> ELSE <<>>)]
    /\ UNCHANGED <<prog, digits, cpc>>
    /\ UNCHANGED renderVars

StringClose ==
    /\ prog = "string"
    /\ cpc = "loop"
    /\ sp.pos = Len(sp.pi_str)
    /\ cpc' = "done"
    /\ UNCHANGED <<prog, digits, sp>>
    /\ UNCHANGED renderVars

NextString == StringOpen \/ StringChar \/ StringClose

(***************************************************************************)
(* main.ava.opt.noimprove.rs write_pi_to_file_chunked: one string, cut     *)
(* into chunks of render_chunk_size characters, each chunk formatted and   *)
(* written as a line.  sp = [pi, pi_str, chunk, total_chunks, out].        *)
(***************************************************************************)
render_chunk_size == 1000

\* the while loop of lines 204-218 from pos_in_chunk on
RECURSIVE FormatChunk(_, _)
FormatChunk(chunk_str, pos_in_chunk) ==
    IF pos_in_chunk >= Len(chunk_str) THEN <<>>
    ELSE LET take == Min(10, Len(chunk_str) - pos_in_chunk)
             pos  == pos_in_chunk + take
         IN  SubSeq(chunk_str, pos_in_chunk + 1, pos)
               \o (IF pos % LineDigits = 0 /\ pos < Len(chunk_str) THEN <<"\n">>
                   ELSE IF pos < Len(chunk_str) THEN <<" ">>
                   ELSE <<>>)
               \o FormatChunk(chunk_str, pos)

\* what one turn of for chunk in 0..total_chunks writes
ChunkText(pi_str, chunk) ==
    LET start_pos == chunk * render_chunk_size
        end_pos   == Min((chunk + 1) * render_chunk_size, Len(pi_str))
    IN  IF start_pos < Len(pi_str)
        THEN LET formatted == FormatChunk(SubSeq(pi_str, start_pos + 1, end_pos), 0)
             IN  IF formatted # <<>> THEN formatted \o <<"\n">> ELSE <<>>
        ELSE <<>>

InitChunked == InitRender("chunked")

ChunkedOpen ==
    /\ prog = "chunked"
    /\ cpc = "start"
    /\ sp' = [pi |-> sp.pi, pi_str |-> to_string_radix(sp.pi, digits), chunk |-> 0,
              total_chunks |-> CeilDiv(digits, render_chunk_size), out |-> <<>>]
    /\ cpc' = "loop"
    /\ UNCHANGED <<prog, digits>>
    /\ UNCHANGED renderVars

ChunkedChunk ==
    /\ prog = "chunked"
    /\ cpc = "loop"
    /\ sp.chunk < sp.total_chunks
    /\ sp' = [sp EXCEPT !.chunk = sp.chunk + 1,
                        !.out = sp.out \o ChunkText(sp.pi_str, sp.chunk)]
    /\ UNCHANGED <<prog, digits, cpc>>
    /\ UNCHANGED renderVars

ChunkedClose ==
    /\ prog = "chunked"
    /\ cpc = "loop"
    /\ sp.chunk = sp.total_chunks
    /\ cpc' = "done"
    /\ UNCHANGED <<prog, digits, sp>>
    /\ UNCHANGED renderVars

NextChunked == ChunkedOpen \/ ChunkedChunk \/ ChunkedClose

(***************************************************************************)
(* The three renderers, each called with the same arguments.               *)
(***************************************************************************)
InitRenderers == InitStream \/ InitString \/ InitChunked

NextRenderers == NextStream \/ NextString \/ NextChunked

SpecRender == InitRenderers /\ [][NextRenderers]_vars

(***************************************************************************)
(* verify_pi_accuracy (main.ava.opt.noimprove.rs, main.chudnovsky.rs,      *)
(* main.chudnovsky0.rs): a string is a sequence of characters.  The model  *)
(* calls it with strings of digits that follow the reference, are cut at   *)
(* any length, carry at most one wrong digit, and with "inf" and "NaN",    *)
(* which Float::to_string_radix gives for a Float that is not a number.    *)
(* sp = [pi_str, computed_digits, compare_len, i].                         *)
(***************************************************************************)
VerifyWindow == 2    \* lengths, digit counts and error places lie within VerifyWindow of 0 and of 100

known_pi ==
    <<"3", ".", "1", "4", "1", "5", "9", "2", "6", "5", "3", "5", "8", "9", "7", "9", "3",
      "2", "3", "8", "4", "6", "2", "6", "4", "3", "3", "8", "3", "2", "7", "9", "5", "0",
      "2", "8", "8", "4", "1", "9", "7", "1", "6", "9", "3", "9", "9", "3", "7", "5", "1",
      "0", "5", "8", "2", "0", "9", "7", "4", "9", "4", "4", "5", "9", "2", "3", "0", "7",
      "8", "1", "6", "4", "0", "6", "2", "8", "6", "2", "0", "8", "9", "9", "8", "6", "2",
      "8", "0", "3", "4", "8", "2", "5", "3", "4", "2", "1", "1", "7", "0", "6", "7", "9">>

\* c.is_ascii_digit()
is_ascii_digit(c) == \E k \in 1..10 : DigitChars[k] = c

\* .chars().filter(|c| c.is_ascii_digit()).collect()
DigitsOf(s) == SelectSeq(s, is_ascii_digit)

known_digits == DigitsOf(known_pi)

\* the value of a digit character
DigitValue(c) == (CHOOSE k \in 1..10 : DigitChars[k] = c) - 1

\* the digit string a conversion of len digits gives: the reference digits,
\* zeros beyond them, the digit at index wrong (if below len) one too large,
\* the point after the first digit
ComputedString(len, wrong) ==
    LET ds == [j \in 1..len |->
                 LET c == IF j <= Len(known_digits) THEN known_digits[j] ELSE "0"
                 IN  IF j = wrong + 1 THEN DigitChars[((DigitValue(c) + 1) % 10) + 1] ELSE c]
    IN  IF len = 0 THEN <<>>
        ELSE <<ds[1]>> \o (IF len = 1 THEN <<>> ELSE <<".">> \o SubSeq(ds, 2, len))

VerifyCounts == (0..VerifyWindow) \cup ((100 - VerifyWindow)..(101 + VerifyWindow))

VerifyStrings ==
    {ComputedString(len, wrong) : len \in VerifyCounts, wrong \in VerifyCounts}
        \cup {<<"i", "n", "f">>, <<"N", "a", "N">>}

InitVerify ==
    /\ prog = "verify_pi_accuracy"
    /\ digits \in VerifyCounts
    /\ \E s \in VerifyStrings :
          sp = [pi_str |-> s, computed_digits |-> <<>>, compare_len |-> 0, i |-> 0]
    /\ num_threads = 1
    /\ precision = 0
    /\ terms_needed = 0
    /\ ranges = <<>>
    /\ counter = 0
    /\ wpc = <<>>
    /\ wloc = <<>>
    /\ lock = MutexNew
    /\ result = None
    /\ cpc = "start"
    /\ joined = 0
    /\ final = None
    /\ ret = None
    /\ hist = <<>>

\* computed_digits and the three min() of compare_len
VerifyOpen ==
    /\ prog = "verify_pi_accuracy"
    /\ cpc = "start"
    /\ LET computed_digits == DigitsOf(sp.pi_str)
       IN  sp' = [sp EXCEPT !.computed_digits = computed_digits,
                            !.compare_len = Min(Min(Min(100, digits), Len(known_digits)),
                                                Len(computed_digits))]
    /\ cpc' = "loop"
    /\ UNCHANGED <<prog, digits>>
    /\ UNCHANGED renderVars

\* one turn of for i in 0..compare_len: a difference ends the comparison
VerifyCompare ==
    /\ prog = "verify_pi_accuracy"
    /\ cpc = "loop"
    /\ sp.i < sp.compare_len
    /\ IF sp.computed_digits[sp.i + 1] # known_digits[sp.i + 1]
       THEN /\ ret' = [accurate |-> FALSE, index |-> sp.i]
            /\ cpc' = "done"
            /\ UNCHANGED sp
       ELSE /\ sp' = [sp EXCEPT !.i = sp.i + 1]
            /\ UNCHANGED <<ret, cpc>>
    /\ UNCHANGED <<prog, digits, num_threads, precision, terms_needed, ranges, counter,
                   wpc, wloc, lock, result, joined, final, hist>>

\* no difference found: (true, compare_len)
VerifyReturn ==
    /\ prog = "verify_pi_accuracy"
    /\ cpc = "loop"
    /\ sp.i = sp.compare_len
    /\ ret' = [accurate |-> TRUE, index |-> sp.compare_len]
    /\ cpc' = "done"
    /\ UNCHANGED <<prog, digits, sp, num_threads, precision, terms_needed, ranges, counter,
                   wpc, wloc, lock, result, joined, final, hist>>

NextVerify == VerifyOpen \/ VerifyCompare \/ VerifyReturn

SpecVerify == InitVerify /\ [][NextVerify]_vars

(***************************************************************************)
(* main.ava.opt.noimprove.rs main with one thread: compute_pi_optimized,   *)
(* then pi.to_string_radix(10, Some(digits)) handed to verify_pi_accuracy. *)
(* The Float a thread returns is the sum of its terms in the order it      *)
(* added them, each addition rounded to precision bits.                    *)
(***************************************************************************)
MaxAccuracyDigits == 5

\* local_sum after local_sum += term for each term of the sequence in turn
RECURSIVE SumInOrder(_, _)
SumInOrder(terms, prec) ==
    IF terms = <<>> THEN FloatZero(prec)
    ELSE FloatAdd(SumInOrder(SubSeq(terms, 1, Len(terms) - 1), prec),
                  terms[Len(terms)].v, prec)

\* final_result += thread_sum for the one thread
JoinedSum(terms, prec) == FloatAdd(FloatZero(prec), SumInOrder(terms, prec), prec)

InitAccuracy ==
    /\ prog = "opt"
    /\ sp = NoSplit
    /\ digits \in 1..MaxAccuracyDigits
    /\ num_threads = 1
    /\ precision = PrecisionBits(digits, 10)
    /\ terms_needed = BBPTermsNeeded(precision)
    /\ ranges = <<>> /\ counter = 0
    /\ wpc = [w \in 1..num_threads |-> "unspawned"]
    /\ wloc = [w \in 1..num_threads |->
                [calculator |-> BBPCalculatorNew(precision), local_sum |-> <<>>, k |-> -1]]
    /\ lock = None /\ result = None /\ cpc = "spawn" /\ joined = 0
    /\ final = <<>> /\ ret = None /\ hist = <<>>

\* pi_full_str and the call of verify_pi_accuracy(&pi_full_str, digits)
MainVerify ==
    /\ prog = "opt" /\ cpc = "returned"
    /\ LET pi == JoinedSum(ret.sum, precision)
       IN  sp' = [pi_str |-> to_string_radix(pi, digits), computed_digits |-> <<>>,
                  compare_len |-> 0, i |-> 0]
    /\ prog' = "verify_pi_accuracy"
    /\ cpc' = "start"
    /\ UNCHANGED digits
    /\ UNCHANGED renderVars

NextAccuracy == NextOpt \/ MainVerify \/ NextVerify

SpecAccuracy == InitAccuracy /\ [][NextAccuracy]_vars

(***************************************************************************)
(* write_pi_to_file_chunked with digit counts around render_chunk_size,    *)
(* where the number of chunks changes.                                     *)
(***************************************************************************)
ChunkWindow == 2     \* digit counts are taken within ChunkWindow of 0 and of render_chunk_size
ChunkedPrec == 6     \* bits of the Floats handed to write_pi_to_file_chunked

ChunkedDigits ==
    (1..ChunkWindow) \cup ((render_chunk_size - ChunkWindow)..(render_chunk_size + ChunkWindow))

InitChunks ==
    /\ prog = "chunked"
    /\ digits \in ChunkedDigits
    /\ \E pi \in RenderInputs(ChunkedPrec) :
          sp = [pi |-> pi, remainder |-> FloatZero(pi.prec), i |-> 0, out |-> <<>>,
                scaled |-> FloatZero(pi.prec), digit_int |-> 0]
    /\ num_threads = 1
    /\ precision = ChunkedPrec
    /\ terms_needed = 0
    /\ ranges = <<>>
    /\ counter = 0
    /\ wpc = <<>>
    /\ wloc = <<>>
    /\ lock = MutexNew
    /\ result = None
    /\ cpc = "start"
    /\ joined = 0
    /\ final = None
    /\ ret = None
    /\ hist = <<>>

SpecChunks == InitChunks /\ [][NextChunked]_vars

(***************************************************************************)
(* main.chudnovsky0.rs and main.ava.opt.noimprove.rs under fair            *)
(* scheduling: an operating-system thread that can take its next step      *)
(* takes it in the end, and so does the thread that called the function.   *)
(* No thread panics: the Mutex starts unpoisoned and no action of these    *)
(* two programs poisons it.                                                *)
(***************************************************************************)
MaxLiveChunks == 2   \* runs of main.chudnovsky0.rs with up to MaxLiveChunks chunks

InitLive ==
    \/ InitIter /\ CeilDiv(terms_needed, chunk_size) <= MaxLiveChunks
    \/ InitOpt /\ num_threads = 1

\* the next step of thread w
Worker(w) ==
    /\ w \in DOMAIN wpc
    /\ \/ IterClaim(w) \/ IterChunk(w) \/ IterLock(w) \/ IterMerge(w)
       \/ OptStep(w)

\* the next step of the calling thread
Coordinator == IterSpawn \/ IterJoin \/ IterReturn \/ OptSpawn \/ OptJoin \/ OptReturn

NextLive == Coordinator \/ \E w \in DOMAIN wpc : Worker(w)

FairScheduling ==
    /\ WF_vars(Coordinator)
    /\ \A w \in 1..MaxThreads : WF_vars(Worker(w))

SpecLive == InitLive /\ [][NextLive]_vars /\ FairScheduling

(***************************************************************************)
(* Claims about compute_binary_split                                       *)
(***************************************************************************)
\* the exact fraction n/d that is the sum of numerator_k / denominator_k, k in a..b-1
RECURSIVE SeriesSum(_, _)
SeriesSum(a, b) ==
    IF b - a = 1 THEN [n |-> BaseCase(a).p, d |-> BaseCase(a).q]
    ELSE LET head == SeriesSum(a, b - 1)
             last == BaseCase(b - 1)
         IN  [n |-> BigAdd(BigMul(head.n, last.q), BigMul(last.p, head.d)),
              d |-> BigMul(head.d, last.q)]

\* C1: for every range [a,b) with b - a >= 2 and every m with a < m < b, merging
\* compute_binary_split(a,m) and compute_binary_split(m,b) by the rule gives exactly
\* the triple compute_binary_split(a,b).
C1_SplitPointIndependence ==
    sp.pc = "merged" => sp.merged = sp.whole

\* a split away from the midpoint the function itself takes has been merged
C1_Witness ==
    /\ sp.pc = "merged" /\ sp.b - sp.a >= 4
    /\ sp.m # (sp.a + sp.b) \div 2
    /\ sp.merged = sp.whole

\* C2: for every range [a,b) with a < b the triple (P,Q,T) of compute_binary_split(a,b)
\* satisfies: the exact sum of numerator_k/denominator_k for k = a..b-1 equals T/(P*Q).
C2_SumConvention ==
    sp.pc \in {"whole", "left", "right", "merged"} =>
        LET sum == SeriesSum(sp.a, sp.b)
        IN  BigMul(sum.n, BigMul(sp.whole.p, sp.whole.q)) = BigMul(sp.whole.t, sum.d)


(***************************************************************************)
(* Claims about compute_pi                                                 *)
(***************************************************************************)
Merges == SelectSeq(hist, LAMBDA e : e.ev = "merge")
Finished == SelectSeq(hist, LAMBDA e : e.ev = "done")

\* C3: for a fixed terms_needed >= 1 the triple (final_p, final_q, final_t) that
\* compute_pi folds from the per-range results is compute_binary_split(0, terms_needed),
\* whatever num_threads >= 1 is and in whatever order the threads finish.
C3_FoldIsWholeRange ==
    (prog = "compute_pi" /\ cpc = "returned") =>
        final = compute_binary_split(0, terms_needed)

\* returned from three ranges whose threads did not finish in range order
C3_Witness ==
    /\ prog = "compute_pi" /\ cpc = "returned"
    /\ num_threads = 3 /\ Len(ranges) = 3 /\ terms_needed >= 4
    /\ Finished[1].w = 3
    /\ final = compute_binary_split(0, terms_needed)

\* C9: the calling thread merges the per-thread triples strictly in ascending order
\* of their term ranges, whatever the order in which the threads finish.
C9_MergeInRangeOrder ==
    prog = "compute_pi" =>
        /\ Len(Merges) = joined
        /\ \A i \in 1..Len(Merges) : Merges[i].w = i
        /\ \A i \in 1..(Len(ranges) - 1) : ranges[i].b <= ranges[i + 1].a

\* the thread of the second range finished first, and the first range was merged first
C9_Witness ==
    /\ prog = "compute_pi" /\ Len(ranges) >= 2 /\ joined >= 2
    /\ Finished[1].w = 2
    /\ Merges[1].w = 1 /\ Merges[2].w = 2

\* C10 as stated: no merge step happens before every spawned thread has returned.
C10_NoMergeBeforeAllDone ==
    (prog = "compute_pi" /\ joined >= 1) => \A w \in DOMAIN wpc : wpc[w] = "done"

\* C10 as the code has it: the triple of a range is merged only once the thread of
\* that range and of every lower range has returned (later threads may still run),
\* and the value is returned only after every thread has returned.
C10_MergeAfterOwnJoin ==
    prog = "compute_pi" =>
        /\ \A w \in 1..joined : wpc[w] = "done"
        /\ cpc = "returned" => \A w \in DOMAIN wpc : wpc[w] = "done"

\* a triple has been merged while another thread is still running
C10_Witness ==
    /\ prog = "compute_pi" /\ joined >= 1
    /\ \E w \in DOMAIN wpc : wpc[w] = "running"
    /\ \A w \in 1..joined : wpc[w] = "done"


(***************************************************************************)
(* Claims about the work-stealing programs                                 *)
(***************************************************************************)
\* C4: whenever a thread of main.w0.rs calls compute_term(k) with k >= 1, its
\* calculator holds k!, (3k)! and (6k)! after update_factorials(k), for any
\* num_threads and any interleaving of the fetch_add claims.
C4_FactorialsMatchIndex ==
    prog = "w0" =>
        \A w \in DOMAIN wloc :
            wloc[w].k >= 1 =>
                /\ wloc[w].calculator.k_factorial = factorial(wloc[w].k)
                /\ wloc[w].calculator.three_k_factorial = factorial(3 * wloc[w].k)
                /\ wloc[w].calculator.six_k_factorial = factorial(6 * wloc[w].k)


(***************************************************************************)
(* Claims about the programs whose threads take their work from a counter. *)
(***************************************************************************)
\* the term indices in a sum
Indices(sum) == {sum[i].k : i \in DOMAIN sum}

\* no index is in a sum twice
NoRepeat(sum) == Cardinality(Indices(sum)) = Len(sum)

\* C5: each term index below terms_needed is taken from the counter by one
\* thread only and is added once to one thread-local sum, whatever the number of
\* threads and the interleaving; no index from terms_needed on is evaluated or
\* added; when all threads have ended every index below terms_needed is in a sum.
C5_ExactlyOnce ==
    prog \in {"opt", "direct"} =>
        /\ \A w \in DOMAIN wloc :
            /\ Indices(wloc[w].local_sum) \subseteq 0..(terms_needed - 1)
            /\ NoRepeat(wloc[w].local_sum)
            /\ \A v \in DOMAIN wloc :
                v # w => Indices(wloc[v].local_sum) \cap Indices(wloc[w].local_sum) = {}
        /\ prog = "direct" =>
            \A w \in DOMAIN wloc :
                /\ \A i \in DOMAIN wloc[w].claimed :
                    /\ wloc[w].claimed[i] < DirectNumChunks(terms_needed)
                    /\ \A j \in DOMAIN wloc[w].claimed : wloc[w].claimed[j] = wloc[w].claimed[i] => j = i
                /\ \A v \in DOMAIN wloc :
                    v # w => \A i \in DOMAIN wloc[w].claimed, j \in DOMAIN wloc[v].claimed :
                                wloc[w].claimed[i] # wloc[v].claimed[j]
        /\ (\A w \in DOMAIN wpc : wpc[w] = "done") =>
            UNION {Indices(wloc[w].local_sum) : w \in DOMAIN wloc} = 0..(terms_needed - 1)
        /\ cpc = "returned" =>
            /\ Indices(ret.sum) = 0..(terms_needed - 1)
            /\ NoRepeat(ret.sum)

\* the chunked program has returned; two threads each got a chunk, the last chunk
\* was a short one
C5_Witness ==
    /\ prog = "direct" /\ cpc = "returned"
    /\ terms_needed % chunk_size # 0
    /\ \E w, v \in DOMAIN wloc :
        /\ w # v
        /\ wloc[w].claimed # <<>> /\ wloc[v].claimed # <<>>

\* the terms of indices 0..terms_needed-1 as a thread that has computed nothing
\* before computes them, for each digit count: entry k + 1 is the term of index k
AvaReference ==
    Vec([d \in 1..MaxBBPDigits |->
            LET prec == PrecisionBits(d, 10)
                n    == BBPTermsNeeded(prec)
            IN  Vec([i \in 1..n |-> bbp_term(i - 1, prec)], n)],
        MaxBBPDigits)

OptReference ==
    Vec([d \in 1..MaxBBPDigits |->
            LET prec == PrecisionBits(d, 10)
                n    == BBPTermsNeeded(prec)
            IN  Vec([i \in 1..n |->
                        BBPCalculator_compute_term(BBPCalculatorNew(prec), i - 1, prec).term1],
                    n)],
        MaxBBPDigits)

BBPReference(k) ==
    IF prog = "ava" THEN AvaReference[digits][k + 1] ELSE OptReference[digits][k + 1]

\* C6: in the BBP programs the value added for index k is the same whichever
\* thread took k and whatever that thread computed before, so the terms of the
\* returned sum are the same set for every number of threads and every schedule.
C6_TermsIndependentOfSchedule ==
    prog \in {"ava", "opt"} =>
        /\ \A w \in DOMAIN wloc : \A i \in DOMAIN wloc[w].local_sum :
            wloc[w].local_sum[i].v = BBPReference(wloc[w].local_sum[i].k)
        /\ cpc = "returned" =>
            /\ Len(ret.sum) = terms_needed
            /\ {ret.sum[i] : i \in DOMAIN ret.sum} =
                   {[k |-> k, v |-> BBPReference(k)] : k \in 0..(terms_needed - 1)}

\* the program with the reused calculator has returned with two threads, one of
\* which computed indices that do not follow each other
C6_Witness ==
    /\ prog = "opt" /\ cpc = "returned" /\ num_threads = 2
    /\ \E w \in DOMAIN wloc : \E i \in DOMAIN wloc[w].local_sum :
        /\ i > 1
        /\ wloc[w].local_sum[i].k > wloc[w].local_sum[i - 1].k + 1
        /\ wloc[w].local_sum[i].k >= 2

\* C7: in the programs with the Mutex a thread takes the lock once, after it has
\* left its loop, and the lock is not held by a thread that is taking a chunk or
\* computing one.
C7_LockOnceAfterLoop ==
    prog \in {"direct", "iter"} =>
        \A w \in DOMAIN wloc :
            /\ wloc[w].locks <= 1
            /\ ~wloc[w].late
            /\ wpc[w] = "done" => wloc[w].locks = 1
            /\ wpc[w] \in {"loop", "compute"} => wloc[w].locks = 0 /\ lock.holder # w
            /\ lock.holder = w => wpc[w] = "merge"

\* a thread that got two chunks holds the lock while another thread computes
C7_Witness ==
    /\ prog = "iter"
    /\ \E w, v \in DOMAIN wloc :
        /\ lock.holder = w /\ Len(wloc[w].claimed) >= 2
        /\ wpc[v] = "compute"

\* C8: once a thread has panicked the compute function does not return a value.
C8_PanicNoResult ==
    (\E w \in DOMAIN wpc : wpc[w] = "panicked") => cpc # "returned" /\ ret = None

\* a thread panicked under the guard after another had added its sum, and the
\* calling thread failed at the join
C8_Witness ==
    /\ prog = "direct" /\ cpc = "panicked"
    /\ lock.poisoned /\ result # <<>>
    /\ \E w \in DOMAIN wpc : wpc[w] = "done"

RangeLen(r) == r.b - r.a

\* the ranges follow each other from 0 to terms_needed, none of them empty
Contiguous ==
    /\ terms_needed >= 1 => (ranges # <<>> /\ ranges[1].a = 0 /\ ranges[Len(ranges)].b = terms_needed)
    /\ \A i \in DOMAIN ranges : RangeLen(ranges[i]) >= 1
    /\ \A i \in DOMAIN ranges : i < Len(ranges) => ranges[i].b = ranges[i + 1].a

\* one thread for each range, all of them spawned once the spawn loop has ended
OneWorkerPerRange ==
    /\ DOMAIN wpc = DOMAIN ranges
    /\ cpc \in {"join", "returned"} => \A w \in DOMAIN wpc : wpc[w] # "unspawned"

Planned == prog = "compute_pi" /\ cpc # "start" /\ num_threads >= 1 /\ terms_needed >= 1

\* C14 as stated: [0, terms_needed) is cut into exactly num_threads contiguous
\* ranges whose lengths differ by at most one, with one thread for each.
C14_NumThreadsEqualRanges ==
    Planned =>
        /\ Len(ranges) = num_threads
        /\ Contiguous
        /\ \A i, j \in DOMAIN ranges : RangeLen(ranges[i]) - RangeLen(ranges[j]) <= 1
        /\ OneWorkerPerRange

\* C14 amended: [0, terms_needed) is cut into at most num_threads contiguous
\* ranges, each of ceil(terms_needed / num_threads) terms but the last, which
\* has between 1 and that many, with one thread for each range.
C14_AtMostNumThreadsRanges ==
    Planned =>
        /\ Len(ranges) <= num_threads
        /\ Contiguous
        /\ \A i \in DOMAIN ranges :
            LET share == (terms_needed + num_threads - 1) \div num_threads IN
            IF i < Len(ranges) THEN RangeLen(ranges[i]) = share
            ELSE RangeLen(ranges[i]) \in 1..share
        /\ OneWorkerPerRange

\* compute_pi has returned after fewer ranges than the threads it was asked for
C14_Witness ==
    /\ Planned /\ cpc = "returned"
    /\ Len(ranges) >= 2 /\ Len(ranges) < num_threads

(***************************************************************************)
(* Claims about the plan of precision and terms                            *)
(***************************************************************************)
\* C15: for every accepted digit count d, the number of terms the
\* binary-splitting path plans is at least ceil(d / 14.1816), also for the
\* d > 10000 that compute_pi_hybrid sends to this path.
C15_EnoughTermsPlanned ==
    (prog = "hybrid" /\ sp.path = "binary_split" /\ cpc \in {"terms", "planned"})
        => ~BigLess(BigFrom(terms_needed), CeilRatio(digits, 10000, 141816))

\* the terms a program plans for d digits
TermsNeededFor(p, d, overflow_checks) ==
    PlanTermsNeeded(p, d, precision_u32(d, GuardBits(p), overflow_checks).value)

\* C16: terms_needed(d) is non-decreasing in d: for accepted d1 <= d2 the
\* terms planned for d1 are at most the terms planned for d2, for the BBP
\* count precision / 4 + 10 and the Chudnovsky counts with their guard or cap.
C16_TermsNonDecreasing ==
    (prog \in PlanPrograms /\ cpc = "planned")
        => \A d2 \in Typed(prog) :
              (digits <= d2 /\ d2 <= MaxAccepted(prog))
                  => terms_needed <= TermsNeededFor(prog, d2, sp.overflow_checks)

\* the cap is in force at the largest accepted count, and smaller counts plan fewer terms
C16_Witness ==
    /\ prog = "hybrid"
    /\ cpc = "planned"
    /\ digits = MaxAccepted("hybrid")
    /\ terms_needed = max_terms
    /\ TermsNeededFor("hybrid", hybrid_threshold + 1, FALSE) < max_terms

\* the precision has been planned (or its addition has panicked)
PrecisionPlanned ==
    /\ prog \in PlanPrograms
    /\ \/ cpc \in {"planned", "panic"}
       \/ cpc = "precision"

\* C17: for every accepted digit count d the planned precision,
\* ceil(d * 3.32193) + guard as a u32, is at least ceil(d * log2(10)) + guard
\* (log2(10) < 3.321929) and is computed without overflow or truncation.
C17_PrecisionSufficientNoOverflow ==
    PrecisionPlanned
        => /\ cpc # "panic"
           /\ ~sp.overflow
           /\ precision = BigAdd(CeilRatio(digits, 332193, 100000), BigFrom(GuardBits(prog)))
           /\ ~BigLess(precision,
                       BigAdd(CeilRatio(digits, 3321929, 1000000), BigFrom(GuardBits(prog))))

\* the precision of the largest accepted count is planned and needs more than 31 bits
C17_Witness ==
    /\ prog = "hybrid"
    /\ cpc = "planned"
    /\ digits = MaxAccepted("hybrid")
    /\ BigLess(BigPow(BigFrom(2), 31), precision)

(***************************************************************************)
(* Claims about the renderers                                              *)
(***************************************************************************)
FloatIsInteger(x) == x.m = 0 \/ x.e >= 0 \/ (-x.e <= 30 /\ x.m % Pow2(-x.e) = 0)

\* floor(x) of a Float
FloatFloor(x) ==
    IF ~x.neg THEN FloatFloorMag(x)
    ELSE IF FloatIsInteger(x) THEN -FloatFloorMag(x)
    ELSE -FloatFloorMag(x) - 1

\* 0 <= x < 1
InUnitInterval(x) == x.m = 0 \/ (~x.neg /\ BitLen(x.m) + x.e <= 0)

\* the characters of a text that are digits
RECURSIVE CountDigits(_)
CountDigits(out) ==
    IF out = <<>> THEN 0
    ELSE (IF \E c \in 1..10 : DigitChars[c] = Head(out) THEN 1 ELSE 0) + CountDigits(Tail(out))

\* C18: streaming extraction emits exactly digits fractional digits; at
\* every step the digit is floor(10 * remainder), lies in 0..9 and leaves a
\* remainder in [0, 1); the digit is never 10 and the remainder never negative.
C18_TruncatedDigits ==
    prog = "stream"
        => /\ cpc # "panic"
           /\ (cpc \in {"loop", "done"} /\ sp.i > 0)
                 => /\ sp.digit_int = FloatFloor(sp.scaled)
                    /\ sp.digit_int \in 0..9
           /\ cpc \in {"loop", "done"} => InUnitInterval(sp.remainder)
           /\ cpc = "done" => CountDigits(sp.out) = digits + 1

\* the whole digit text write_pi_to_file_chunked writes for pi and digits
RECURSIVE ChunkedTextFrom(_, _, _)
ChunkedTextFrom(pi_str, chunk, total_chunks) ==
    IF chunk >= total_chunks THEN <<>>
    ELSE ChunkText(pi_str, chunk) \o ChunkedTextFrom(pi_str, chunk + 1, total_chunks)

ChunkedText(pi, n) ==
    ChunkedTextFrom(to_string_radix(pi, n), 0, CeilDiv(n, render_chunk_size))

\* a text without the line break that ends it, if one does
WithoutFinalNewline(t) ==
    IF t # <<>> /\ t[Len(t)] = "\n" THEN SubSeq(t, 1, Len(t) - 1) ELSE t

IsDigitChar(c) == \E k \in 1..10 : DigitChars[k] = c

\* C19: for the same pi and the same digits the streaming renderer and the
\* chunked renderer write the same digit text: it runs to its end and has
\* the same fractional digits, the same characters, the same spaces and
\* line breaks (a line break that ends the text is not compared).
C19_StreamingEqualsChunked ==
    (prog = "stream" /\ cpc \in {"done", "panic"})
        => /\ cpc = "done"
           /\ WithoutFinalNewline(sp.out) = WithoutFinalNewline(ChunkedText(sp.pi, digits))

\* the digits ds laid out in blocks of 10 and lines of LineDigits, separators between digits only
RECURSIVE Layout(_, _)
Layout(ds, j) ==
    IF j > Len(ds) THEN <<>>
    ELSE <<ds[j]>>
           \o (IF j = Len(ds) THEN <<>>
               ELSE IF j % LineDigits = 0 THEN <<"\n">>
               ELSE IF j % 10 = 0 THEN <<" ">>
               ELSE <<>>)
           \o Layout(ds, j + 1)

\* "3." and then the layout of the text's own digits; the text may end with
\* a line break, or with the space or line break its last digit calls for
WellLaidOut(out) ==
    /\ Len(out) >= 2
    /\ out[1] = "3"
    /\ out[2] = "."
    /\ LET body == SubSeq(out, 3, Len(out))
           ds   == SelectSeq(body, IsDigitChar)
           n    == Len(ds)
       IN  \/ body = Layout(ds, 1)
           \/ body = Layout(ds, 1) \o <<"\n">>
           \/ n > 0 /\ n % 10 = 0 /\ n % LineDigits # 0 /\ body = Layout(ds, 1) \o <<" ">>

\* C20: every renderer writes "3." and then the fractional digits in blocks
\* of exactly 10 separated by one space, with a line break and no trailing
\* space after every 50th; "3." is not counted in a block or a line.
C20_BlocksOfTenLinesOfFifty ==
    (prog \in {"stream", "string", "chunked"} /\ cpc = "done") => WellLaidOut(sp.out)

\* the same, of the streaming renderer alone
StreamWellLaidOut == (prog = "stream" /\ cpc = "done") => WellLaidOut(sp.out)

\* the same, of write_pi_to_file alone, and of write_pi_to_file_chunked alone
StringWellLaidOut == (prog = "string" /\ cpc = "done") => WellLaidOut(sp.out)

ChunkedWellLaidOut == (prog = "chunked" /\ cpc = "done") => WellLaidOut(sp.out)

(***************************************************************************)
(* Claims about verify_pi_accuracy                                         *)
(***************************************************************************)
\* the number of digits to compare: min(100, digits, reference length)
RequiredLength == Min(Min(100, digits), Len(known_digits))

\* the places among the first n where the computed digits differ from the reference
DifferingPlaces(computed, n) ==
    {i \in 0..(Min(n, Len(computed)) - 1) : computed[i + 1] # known_digits[i + 1]}

TermNumerator(k) ==
    LET n == BigMul(factorial(6 * k),
                    BigAdd(BigFrom(13591409), BigMul(BigFrom(545140134), BigFrom(k))))
    IN  IF k % 2 = 1 THEN BigNeg(n) ELSE n

\* (3k)! * (k!)^3 * 640320^(3k)
TermDenominator(k) ==
    BigMul(BigMul(factorial(3 * k), BigPow(factorial(k), 3)), BigPow(BigFrom(640320), 3 * k))

\* C22: when one calculator evaluates compute_term(k) for k = 0, 1, 2, ... in
\* order, for every k >= 0 the integers it builds are
\* numerator = (-1)^k (6k)! (13591409 + 545140134 k) and
\* denominator = (3k)! (k!)^3 640320^(3k).
C22_SequentialTermsExact ==
    (prog = "w0" /\ num_threads = 1)
        => \A j \in 1..Len(wloc[1].local_sum) :
              LET e == wloc[1].local_sum[j]
              IN  /\ e.k = j - 1
                  /\ e.num = TermNumerator(e.k)
                  /\ e.den = TermDenominator(e.k)

\* the same for the indices k >= 1
SequentialTermsExactFromOne ==
    (prog = "w0" /\ num_threads = 1)
        => \A j \in 2..Len(wloc[1].local_sum) :
              LET e == wloc[1].local_sum[j]
              IN  /\ e.k = j - 1
                  /\ e.num = TermNumerator(e.k)
                  /\ e.den = TermDenominator(e.k)

\* the indices start, ..., end - 1 in order
IndexRange(start, end) == [j \in 1..(end - start) |-> start + j - 1]

\* the indices of the chunks cs of main.chudnovsky0.rs, chunk after chunk
RECURSIVE ChunkIndices(_)
ChunkIndices(cs) ==
    IF cs = <<>> THEN <<>>
    ELSE IndexRange(Head(cs) * chunk_size,
                    Min(Head(cs) * chunk_size + chunk_size, terms_needed))
           \o ChunkIndices(Tail(cs))

\* the chunks a worker has claimed and summed
Summed(w) ==
    IF wpc[w] = "compute" THEN SubSeq(wloc[w].claimed, 1, Len(wloc[w].claimed) - 1)
    ELSE wloc[w].claimed

\* C23: in main.chudnovsky0.rs every worker re-derives the recurrence state
\* for each chunk it claims: the iterator of a chunk is fresh and advanced
\* start_term times, so its index k equals start_term when the summation
\* begins, and the chunk sum covers exactly the indices
\* start_term..end_term-1, whatever chunks this worker or another worker
\* processed before: the indices in a worker's local sum are those of its
\* own chunks, chunk after chunk.
C23_ChunkStartsAtItsOwnIndex ==
    prog = "iter"
        => \A w \in DOMAIN wloc :
              /\ \A c \in 1..Len(wloc[w].claimed) :
                    ChunkIter(precision, wloc[w].claimed[c] * chunk_size).k
                        = wloc[w].claimed[c] * chunk_size
              /\ Vec([j \in 1..Len(wloc[w].local_sum) |-> wloc[w].local_sum[j].k],
                     Len(wloc[w].local_sum))
                    = ChunkIndices(Summed(w))

\* a worker has summed a chunk that starts mid-range after another chunk of its own
C23_Witness ==
    /\ prog = "iter"
    /\ \E w \in DOMAIN wloc :
          /\ Len(Summed(w)) >= 2
          /\ Summed(w)[2] > Summed(w)[1] + 1
          /\ wloc[w].local_sum # <<>>

\* C26: after k calls of next_term on a fresh ChudnovskyIter the current term
\* has the sign (-1)^k: positive for even k, negative for odd k.
C26_TermsAlternateInSign ==
    prog = "iter"
        => \A w \in DOMAIN wloc :
              \A j \in 1..Len(wloc[w].local_sum) :
                  wloc[w].local_sum[j].neg = (wloc[w].local_sum[j].k % 2 = 1)

(***************************************************************************)
(* Claims about the accuracy of a run                                      *)
(***************************************************************************)
\* C24: for every accepted digit count the leading min(100, digits) digits
\* of the rendered value are those of the reference constant, so that the
\* verifier reports is_accurate = true at the end of every run.
C24_EveryRunIsAccurate ==
    (prog = "verify_pi_accuracy" /\ cpc = "done") => ret.accurate

(***************************************************************************)
(* Claims about the chunks of write_pi_to_file_chunked                     *)
(***************************************************************************)
IsSeparator(c) == c \in {" ", "\n"}

\* the characters of the chunks written so far, without the spaces and the
\* line breaks put between them
WrittenCharacters == SelectSeq(sp.out, LAMBDA c : ~IsSeparator(c))

\* C25: once the chunk loop is over, the substrings it took make up the
\* whole string of the conversion, no character dropped or written twice,
\* also when digits is a multiple of the chunk size.
C25_ChunksEmitWholeString ==
    (prog = "chunked" /\ cpc = "done") => WrittenCharacters = sp.pi_str

\* the same for digit counts that are not a multiple of the chunk size
ChunksEmitWholeStringOffMultiples ==
    (prog = "chunked" /\ cpc = "done" /\ digits % render_chunk_size # 0)
        => WrittenCharacters = sp.pi_str

(***************************************************************************)
(* Claims about termination                                                *)
(***************************************************************************)
AllWorkersExited == \A w \in DOMAIN wpc : wpc[w] = "done"

\* C27: under fair scheduling and without a panic every thread leaves its
\* loop and ends, every join returns and the calling thread returns a
\* result, for every number of threads and of terms.
C27_EveryRunReturns ==
    <>(AllWorkersExited /\ joined = num_threads /\ cpc = "returned")

\* a run of main.chudnovsky0.rs with threads that found no chunk left has returned
C27_Witness ==
    /\ prog = "iter" /\ cpc = "returned" /\ num_threads = MaxThreads
    /\ AllWorkersExited
    /\ \E w \in DOMAIN wloc : wloc[w].claimed = <<>>
    /\ \E w \in DOMAIN wloc : Len(wloc[w].claimed) >= 2

(***************************************************************************)
(* Claims about the Mutex of the sum                                       *)
(***************************************************************************)
\* thread w is between taking the guard and dropping it
InCriticalSection(w) == wpc[w] = "merge"

\* the orders in which the threads can have added their sums
MergeOrders ==
    {o \in [DOMAIN wpc -> DOMAIN wpc] : \A v, w \in DOMAIN wpc : v # w => o[v] # o[w]}

\* the local sums added one after another in the order o, from the i-th on
RECURSIVE SumsInOrder(_, _)
SumsInOrder(o, i) ==
    IF i > Len(o) THEN <<>> ELSE wloc[o[i]].local_sum \o SumsInOrder(o, i + 1)

\* C28: in the programs that merge under a Mutex at most one thread is in
\* the critical section at a time; the sum read after the joins is made of
\* every thread's local sum, each added once and whole, and it is read only
\* when every thread has added its sum and ended.
C28_ExclusiveMergeCompleteSum ==
    prog \in {"direct", "iter"} =>
        /\ Cardinality({w \in DOMAIN wpc : InCriticalSection(w)}) <= 1
        /\ \A w \in DOMAIN wpc : InCriticalSection(w) <=> lock.holder = w
        /\ cpc = "returned" =>
            /\ \A w \in DOMAIN wpc : wpc[w] = "done" /\ wloc[w].locks = 1
            /\ \E o \in MergeOrders : ret.sum = SumsInOrder(o, 1)

\* a run has returned the sum of several threads that each had terms to add
C28_Witness ==
    /\ prog \in {"direct", "iter"} /\ cpc = "returned"
    /\ Cardinality({w \in DOMAIN wpc : wloc[w].local_sum # <<>>}) >= 2
    /\ Len(ret.sum) = terms_needed

(***************************************************************************)
(* Claims about the ranges and the triples of compute_pi                   *)
(***************************************************************************)
\* the term indices of a range
RangeIndices(r) == {k \in 0..(terms_needed - 1) : r.a <= k /\ k < r.b}

\* C29: the ranges compute_pi builds are non-empty (a < b, so that
\* compute_binary_split is never called with a >= b), pairwise disjoint,
\* in ascending order, each starting where the one before ended, they cover
\* exactly the indices 0..terms_needed-1 and are at most num_threads.
C29_RangesPartitionTerms ==
    Planned =>
        /\ \A i \in DOMAIN ranges : ranges[i].a < ranges[i].b
        /\ \A i, j \in DOMAIN ranges : i # j => RangeIndices(ranges[i]) \cap RangeIndices(ranges[j]) = {}
        /\ \A i, j \in DOMAIN ranges : i < j => ranges[i].b <= ranges[j].a
        /\ \A i \in DOMAIN ranges : i > 1 => ranges[i].a = ranges[i - 1].b
        /\ UNION {RangeIndices(ranges[i]) : i \in DOMAIN ranges} = 0..(terms_needed - 1)
        /\ \A i \in DOMAIN ranges : 0 <= ranges[i].a /\ ranges[i].b <= terms_needed
        /\ Len(ranges) >= 1 /\ Len(ranges) <= num_threads

\* several threads run on ranges of which the last is shorter than the others
C29_Witness ==
    /\ Planned /\ cpc = "join"
    /\ Len(ranges) = num_threads /\ num_threads >= 2
    /\ RangeLen(ranges[Len(ranges)]) < RangeLen(ranges[1])
    /\ \A w \in DOMAIN wpc : wpc[w] = "running"

\* the product of the base-case denominators of the indices a..b-1
RECURSIVE DenominatorProduct(_, _)
DenominatorProduct(a, b) ==
    IF a >= b THEN BigFrom(1)
    ELSE BigMul(DenominatorProduct(a, b - 1), BaseCase(b - 1).q)

\* the end of the last range merged into the accumulator
Covered == IF joined = 0 THEN 0 ELSE ranges[joined].b

\* C30: T is exactly 1 in every triple compute_binary_split returns and in
\* the accumulator of the fold at every turn; Q is the product of the
\* base-case denominators of the indices covered; and merging a triple into
\* the initial accumulator (0, 1, 1) from the left gives the triple itself.
C30_TIsOneQIsProduct ==
    (prog = "compute_pi" /\ cpc \in {"spawn", "join", "returned"}) =>
        /\ \A w \in DOMAIN wpc : wpc[w] = "done" =>
            /\ wloc[w].res.t = BigFrom(1)
            /\ wloc[w].res.q = DenominatorProduct(ranges[w].a, ranges[w].b)
            /\ Merge(FoldStart, wloc[w].res) = wloc[w].res
        /\ final.t = BigFrom(1)
        /\ final.q = DenominatorProduct(0, Covered)
        /\ joined = 0 => final = FoldStart

\* the accumulator holds the first range, of several terms, and a later thread has ended
C30_Witness ==
    /\ prog = "compute_pi" /\ cpc = "join"
    /\ joined = 1 /\ Len(ranges) >= 2
    /\ RangeLen(ranges[1]) >= 2
    /\ wpc[Len(ranges)] = "done"
    /\ final.q # BigFrom(1)

====
